---- MODULE Spec2Model ----
(***************************************************************************)
(* Model of the maxbot long-polling dispatcher (src/maxbot/dispatcher.py), *)
(* the update classification it uses (src/maxbot/types.py), the filters    *)
(* handlers are registered with (src/maxbot/filters.py) and the transport  *)
(* call it polls (src/maxbot_api/bot.py).                                  *)
(*                                                                         *)
(* Python's Optional[T] is modelled as a sequence of length 0 (None) or 1. *)
(* Strings that the code inspects (message text, callback payload) are     *)
(* sequences of one-character strings.                                     *)
(***************************************************************************)
EXTENDS Integers, Sequences, FiniteSets, TLC

\* ------------------------------------------------------------------ bounds
MaxHandlers == 2   \* registrations made on one Dispatcher
MaxPage     == 2   \* records in one fetched page
MaxMarker   == 1   \* next-tokens the transport returns are 0..MaxMarker
MaxStreak   == 2   \* the streak counters of the history saturate here
MaxAdds     == 5   \* add_to_history calls made on one client
MaxKeep     == 3   \* max_history of the client is 1..MaxKeep

\* ---------------------------------------------------------------- Optional
None == <<>>
Some(x) == <<x>>

\* truthiness of an Optional[str]: neither None nor ""
StrTruthy(o) == o # None /\ o[1] # <<>>

\* ----------------------------------------------------------------- strings
S_hi    == <<"h", "i">>
S_btn   == <<"b", "1">>
S_Al    == <<"A", "l">>
S_Bo    == <<"B", "o">>
S_al    == <<"a", "l">>
S_b2    == <<"b", "2">>
S_b     == <<"b">>
S_il    == <<"i", "l">>
S_hill  == <<"h", "i", "l", "l">>
S_help  == <<"h", "e", "l", "p">>
S_start == <<"s", "t", "a", "r", "t">>
S_slash_start == <<"/">> \o S_start

StartsWith(s, p) == Len(p) <= Len(s) /\ SubSeq(s, 1, Len(p)) = p

\* -------------------------------------------------------------- UpdateType
UpdateTypeValues ==
  { "message_created", "message_edited", "message_removed", "message_callback",
    "bot_started", "bot_stopped", "bot_added", "bot_removed",
    "user_added", "user_removed", "chat_title_changed", "message_chat_created" }

\* ------------------------------------------------------------- raw records
\* A raw sub-value is a dict ("dict"), the empty dict ("empty", falsy in
\* Python) or a truthy value of another shape ("str"), on which the .get
\* calls of the from_dict methods raise AttributeError.
RawUser(id) == [shape |-> "dict", user_id |-> id]
BadShape == [shape |-> "str"]
Truthy(v) == v # None /\ v[1].shape # "empty"

RawMessage(sender, text) ==
  [shape |-> "dict", sender |-> sender, body |-> [text |-> text]]
RawCb(user, payload) ==
  [shape |-> "dict", user |-> user, payload |-> payload]

RawMsgHi ==
  [update_type |-> "message_created",
   message |-> Some(RawMessage(Some(RawUser(1)), Some(S_hi))),
   callback |-> None, user |-> None]
RawCallback ==
  [update_type |-> "message_callback",
   message |-> None,
   callback |-> Some(RawCb(Some(RawUser(2)), Some(S_btn))),
   user |-> None]
RawStart ==
  [update_type |-> "message_created",
   message |-> Some(RawMessage(Some(RawUser(1)), Some(S_slash_start))),
   callback |-> None, user |-> None]
RawEdited ==
  [update_type |-> "message_edited",
   message |-> Some(RawMessage(None, Some(S_hi))),
   callback |-> None, user |-> None]
RawBotStarted ==
  [update_type |-> "bot_started",
   message |-> None, callback |-> None, user |-> Some(RawUser(3))]
RawNoMessage ==
  [update_type |-> "message_created",
   message |-> None, callback |-> None, user |-> None]
RawUnknownKind ==
  [update_type |-> "poll_closed",
   message |-> Some(RawMessage(Some(RawUser(1)), Some(S_hi))),
   callback |-> None, user |-> None]
RawMalformed ==
  [update_type |-> "message_created",
   message |-> Some(BadShape), callback |-> None, user |-> None]

\* The platform's event stream; a fetched page is a contiguous slice of it.
Feed == <<RawMsgHi, RawCallback, RawMalformed>>

Pages ==
  { SubSeq(Feed, w[1], w[2]) :
      w \in { v \in (1..Len(Feed)) \X (0..Len(Feed)) :
                v[2] >= v[1] - 1 /\ v[2] - v[1] + 1 <= MaxPage } }

\* ------------------------------------------------------ Update.from_dict
\* dict.get(key, default): a key the dict lacks is a field the record lacks
Get(d, key, default) == IF key \in DOMAIN d THEN d[key] ELSE default

\* UpdateType(update_type_str): the member whose value is the string, or
\* ValueError; the members by name
UpdateTypeMembers ==
  [MESSAGE_CREATED |-> "message_created", MESSAGE_EDITED |-> "message_edited",
   MESSAGE_REMOVED |-> "message_removed", MESSAGE_CALLBACK |-> "message_callback",
   BOT_STARTED |-> "bot_started", BOT_STOPPED |-> "bot_stopped",
   BOT_ADDED |-> "bot_added", BOT_REMOVED |-> "bot_removed",
   USER_ADDED |-> "user_added", USER_REMOVED |-> "user_removed",
   CHAT_TITLE_CHANGED |-> "chat_title_changed",
   MESSAGE_CHAT_CREATED |-> "message_chat_created"]

\* variant of UpdateTypeOf: a string outside the enumeration becomes "unknown"
UpdateTypeOfLossy(update_type_str) ==
  IF \E m \in DOMAIN UpdateTypeMembers : UpdateTypeMembers[m] = update_type_str
    THEN [known |-> TRUE, value |-> update_type_str,
          member |-> Some(CHOOSE m \in DOMAIN UpdateTypeMembers :
                            UpdateTypeMembers[m] = update_type_str)]
    ELSE [known |-> FALSE, value |-> "unknown", member |-> None]

\* try: update_type = UpdateType(update_type_str)
\* except ValueError: update_type = update_type_str
UpdateTypeOf(update_type_str) ==
  IF \E m \in DOMAIN UpdateTypeMembers : UpdateTypeMembers[m] = update_type_str
    THEN [known |-> TRUE, value |-> update_type_str,
          member |-> Some(CHOOSE m \in DOMAIN UpdateTypeMembers :
                            UpdateTypeMembers[m] = update_type_str)]
    ELSE [known |-> FALSE, value |-> update_type_str, member |-> None]

UserFromDict(d) ==
  [user_id    |-> Get(d, "user_id", 0),
   first_name |-> Get(d, "first_name", <<>>),
   last_name  |-> Get(d, "last_name", None),
   username   |-> Get(d, "username", None)]

\* User.full_name
FullName(user) ==
  IF StrTruthy(user.last_name)
    THEN user.first_name \o <<" ">> \o user.last_name[1]
    ELSE user.first_name

\* variant of Mention: the first name is used even when a username is known
MentionFirstName(user) == user.first_name

\* User.mention
Mention(user) ==
  IF StrTruthy(user.username) THEN <<"@">> \o user.username[1]
  ELSE user.first_name

MessageFromDict(d) ==
  [sender |-> IF Truthy(d.sender) THEN Some(UserFromDict(d.sender[1])) ELSE None,
   text   |-> d.body.text,
   chat_type |-> Get(Get(d, "recipient", [shape |-> "dict"]), "chat_type", None)]

CallbackFromDict(d, message) ==
  [user    |-> IF d.user = None THEN UserFromDict([shape |-> "dict"])
               ELSE UserFromDict(d.user[1]),
   payload |-> d.payload,
   message |-> message]

\* from_dict raises when a truthy sub-value is not a dict
FromDictRaises(data) ==
  \/ Truthy(data.message) /\ data.message[1].shape # "dict"
  \/ Truthy(data.message) /\ Truthy(data.message[1].sender)
       /\ data.message[1].sender[1].shape # "dict"
  \/ Truthy(data.callback) /\ data.callback[1].shape # "dict"
  \/ Truthy(data.callback) /\ data.callback[1].user # None
       /\ data.callback[1].user[1].shape # "dict"
  \/ Truthy(data.user) /\ data.user[1].shape # "dict"

UpdateFromDict(data) ==
  LET message  == IF Truthy(data.message)
                    THEN Some(MessageFromDict(data.message[1])) ELSE None
      callback == IF Truthy(data.callback)
                    THEN Some(CallbackFromDict(data.callback[1], message)) ELSE None
      user     == IF Truthy(data.user)
                    THEN Some(UserFromDict(data.user[1])) ELSE None
  IN [update_type |-> UpdateTypeOf(Get(data, "update_type", "")),
      message |-> message, callback |-> callback, user |-> user]

\* ------------------------------------------------------------------ filters
RECURSIVE HasSub(_, _, _)
HasSub(s, sub, k) ==
  IF k + Len(sub) - 1 > Len(s) THEN FALSE
  ELSE IF SubSeq(s, k, k + Len(sub) - 1) = sub THEN TRUE
  ELSE HasSub(s, sub, k + 1)
Contains(s, sub) == HasSub(s, sub, 1)

\* str.strip, str.split()[0], str.split("@")[0]
IsSpace(c) == c \in {" ", "\t", "\n"}

RECURSIVE LStrip(_)
LStrip(s) == IF s # <<>> /\ IsSpace(Head(s)) THEN LStrip(Tail(s)) ELSE s

RECURSIVE RStrip(_)
RStrip(s) ==
  IF s # <<>> /\ IsSpace(s[Len(s)]) THEN RStrip(SubSeq(s, 1, Len(s) - 1)) ELSE s

Strip(s) == RStrip(LStrip(s))

RECURSIVE TakeUntil(_, _)
TakeUntil(s, stop) ==
  IF s = <<>> \/ Head(s) \in stop THEN <<>>
  ELSE <<Head(s)>> \o TakeUntil(Tail(s), stop)

FirstToken(s) == TakeUntil(LStrip(s), {" ", "\t", "\n"})
BeforeAt(s) == TakeUntil(s, {"@"})

TextFilter(text, contains) == [type |-> "text", a |-> text, b |-> contains]

\* variant of CommandFilter: the commands are kept as they were given
CommandFilterVerbatim(commands) ==
  [type |-> "command", a |-> commands, b |-> None]

\* CommandFilter.__init__: every command gets its leading "/"
CommandFilter(commands) ==
  [type |-> "command",
   a |-> [k \in 1..Len(commands) |->
            IF StartsWith(commands[k], <<"/">>) THEN commands[k]
            ELSE <<"/">> \o commands[k]],
   b |-> None]
CallbackDataFilter(data, startswith) == [type |-> "callback_data", a |-> data, b |-> startswith]

TextFilterCheck(f, update) ==
  IF update.message = None \/ ~StrTruthy(update.message[1].text) THEN FALSE
  ELSE LET msg_text == update.message[1].text[1]
       IN IF f.a # <<>> THEN \E i \in 1..Len(f.a) : f.a[i] = msg_text
          ELSE IF StrTruthy(f.b) THEN Contains(msg_text, f.b[1])
          ELSE TRUE

CommandFilterCheck(f, update) ==
  IF update.message = None \/ ~StrTruthy(update.message[1].text) THEN FALSE
  ELSE LET text == Strip(update.message[1].text[1])
       IN IF ~StartsWith(text, <<"/">>) THEN FALSE
          ELSE LET command == BeforeAt(FirstToken(text))
               IN IF f.a # <<>> THEN \E i \in 1..Len(f.a) : f.a[i] = command
                  ELSE TRUE

CallbackDataFilterCheck(f, update) ==
  IF update.callback = None \/ ~StrTruthy(update.callback[1].payload) THEN FALSE
  ELSE LET payload == update.callback[1].payload[1]
       IN IF f.a # <<>> THEN \E i \in 1..Len(f.a) : f.a[i] = payload
          ELSE IF StrTruthy(f.b) THEN StartsWith(payload, f.b[1])
          ELSE TRUE

\* ChatTypeFilter(chat_type), UserFilter(user_ids): the lists they keep
ChatTypeFilter(chat_types) == [type |-> "chat_type", a |-> chat_types, b |-> None]
UserFilter(user_ids) == [type |-> "user", a |-> user_ids, b |-> None]

\* variant of ChatTypeFilterCheck: an update without message passes
ChatTypeFilterCheckLax(f, update) ==
  IF update.message = None THEN TRUE
  ELSE LET chat_type == update.message[1].chat_type
       IN IF chat_type # None /\ chat_type[1] # ""
            THEN \E i \in 1..Len(f.a) : f.a[i] = chat_type[1]
            ELSE FALSE

ChatTypeFilterCheck(f, update) ==
  IF update.message = None THEN FALSE
  ELSE LET chat_type == update.message[1].chat_type
       IN IF chat_type # None /\ chat_type[1] # ""
            THEN \E i \in 1..Len(f.a) : f.a[i] = chat_type[1]
            ELSE FALSE

\* the id UserFilter.check tests: None when no branch applies
UserIdOf(update) ==
  IF update.message # None /\ update.message[1].sender # None
    THEN Some(update.message[1].sender[1].user_id)
  ELSE IF update.callback # None
    THEN Some(update.callback[1].user.user_id)
  ELSE IF update.user # None
    THEN Some(update.user[1].user_id)
  ELSE None

\* variant of UserFilterCheck: the update-level user is looked at first
UserFilterCheckUserFirst(f, update) ==
  LET user_id == IF update.user # None THEN Some(update.user[1].user_id)
                 ELSE UserIdOf(update)
  IN IF user_id # None /\ user_id[1] # 0
       THEN \E i \in 1..Len(f.a) : f.a[i] = user_id[1]
       ELSE FALSE

\* return user_id in self.user_ids if user_id else False
UserFilterCheck(f, update) ==
  LET user_id == UserIdOf(update)
  IN IF user_id # None /\ user_id[1] # 0
       THEN \E i \in 1..Len(f.a) : f.a[i] = user_id[1]
       ELSE FALSE

\* AndFilter(*filters), OrFilter(*filters), NotFilter(filter)
AndFilter(f, g) == [type |-> "and", a |-> <<f, g>>, b |-> None]
OrFilter(f, g) == [type |-> "or", a |-> <<f, g>>, b |-> None]
NotFilter(f) == [type |-> "not", a |-> <<f>>, b |-> None]

\* Filter.__and__, Filter.__or__, Filter.__invert__
OpAnd(self, other) == AndFilter(self, other)
OpOr(self, other) == OrFilter(self, other)
OpInvert(self) == NotFilter(self)

RECURSIVE FilterCheck(_, _)

\* variant of OrFilterCheck: every sub-filter has to pass
OrFilterCheckAll(f, update) ==
  \A i \in 1..Len(f.a) : FilterCheck(f.a[i], update)

\* all(f.check(update) for f in self.filters)
AndFilterCheck(f, update) ==
  \A i \in 1..Len(f.a) : FilterCheck(f.a[i], update)

\* any(f.check(update) for f in self.filters)
OrFilterCheck(f, update) ==
  \E i \in 1..Len(f.a) : FilterCheck(f.a[i], update)

\* not self.filter.check(update)
NotFilterCheck(f, update) == ~FilterCheck(f.a[1], update)

FilterCheck(f, update) ==
  CASE f.type = "text"          -> TextFilterCheck(f, update)
    [] f.type = "command"       -> CommandFilterCheck(f, update)
    [] f.type = "callback_data" -> CallbackDataFilterCheck(f, update)
    [] f.type = "chat_type"     -> ChatTypeFilterCheck(f, update)
    [] f.type = "user"          -> UserFilterCheck(f, update)
    [] f.type = "and"           -> AndFilterCheck(f, update)
    [] f.type = "or"            -> OrFilterCheck(f, update)
    [] f.type = "not"           -> NotFilterCheck(f, update)

\* ----------------------------------------------------------------- Handler
Handler(callback, filters, update_types) ==
  [callback |-> callback, filters |-> filters, update_types |-> update_types]

\* variant of HandlerCheck: one passing filter is enough
HandlerCheckAny(h, update) ==
  IF h.update_types # <<>>
     /\ ~\E i \in 1..Len(h.update_types) : h.update_types[i] = update.update_type.value
  THEN FALSE
  ELSE \E i \in 1..Len(h.filters) : FilterCheck(h.filters[i], update)

HandlerCheck(h, update) ==
  IF h.update_types # <<>>
     /\ ~\E i \in 1..Len(h.update_types) : h.update_types[i] = update.update_type.value
  THEN FALSE
  ELSE \A i \in 1..Len(h.filters) : FilterCheck(h.filters[i], update)

\* variant of HandlePayload: the callback always gets the Update
HandlePayloadUpdate(update) == [kind |-> "Update", value |-> Some(update)]

\* Handler.handle: what the callback is called with
HandlePayload(update) ==
  IF update.update_type.value \in {"message_created", "message_edited"}
    THEN [kind |-> "Message", value |-> update.message]
  ELSE IF update.update_type.value = "message_callback"
    THEN [kind |-> "Callback", value |-> update.callback]
  ELSE [kind |-> "Update", value |-> Some(update)]

\* ------------------------------------------------------------ registrations
\* @dp.message(*filters, commands=..., text=...),
\* @dp.callback_query(*filters, data=...), @dp.update(*types)
\* variant of MessageDeco: the handler is registered without kinds
MessageDecoAnyKind(func, filters, commands, text) ==
  Handler(func,
          filters
            \o (IF StrTruthy(commands) THEN <<CommandFilter(<<commands[1]>>)>> ELSE <<>>)
            \o (IF StrTruthy(text) THEN <<TextFilter(<<text[1]>>, None)>> ELSE <<>>),
          <<>>)

MessageDeco(func, filters, commands, text) ==
  Handler(func,
          filters
            \o (IF StrTruthy(commands) THEN <<CommandFilter(<<commands[1]>>)>> ELSE <<>>)
            \o (IF StrTruthy(text) THEN <<TextFilter(<<text[1]>>, None)>> ELSE <<>>),
          <<"message_created", "message_edited">>)

CallbackQueryDeco(func, filters, data) ==
  Handler(func,
          filters
            \o (IF StrTruthy(data) THEN <<CallbackDataFilter(<<data[1]>>, None)>> ELSE <<>>),
          <<"message_callback">>)

UpdateDeco(func, update_types) == Handler(func, <<>>, update_types)

Registrations ==
  { MessageDeco("hello", <<>>, None, Some(S_hi)),
    UpdateDeco("any_update", <<>>) }

\* ------------------------------------------------------------------- state
VARIABLES
  handlers,          \* Dispatcher.handlers
  marker,            \* Dispatcher.marker (Optional int)
  running,           \* Dispatcher.running
  startup_handler,   \* hasattr(self, "_startup_handler")
  shutdown_handler,  \* hasattr(self, "_shutdown_handler")
  pc,                \* position of start_polling / _poll_updates / process_update
  updates,           \* _poll_updates: the fetched page
  new_marker,        \* _poll_updates: the page's next-token (Optional int)
  idx,               \* _poll_updates: index of the record being processed
  hidx,              \* process_update: index the handler scan resumes from
  \* history (not program state)
  invoked,           \* handler indices whose callback ran for the current update
  fetchMarker,       \* the marker the last get_updates was called with
  cycle,             \* the last poll cycle: "none" | "open" | "fail" | "ok" | "crashed"
  hist               \* counters and flags of the current run of start_polling

VARIABLES
  sessions,          \* GigaChatClient.sessions: session_id -> list of messages
  max_history,       \* GigaChatClient.max_history
  sent               \* history: number of add_to_history calls made so far

VARIABLES
  rpc,               \* position of retry_with_backoff: "idle" | "try" | "returned" | "raised"
  max_retries,       \* retry_with_backoff: max_retries
  max_delay,         \* retry_with_backoff: max_delay (half seconds)
  delay,             \* retry_with_backoff: delay (half seconds)
  last_exception,    \* retry_with_backoff: last_exception (Optional)
  attempt,           \* retry_with_backoff: the loop variable
  wait_time,         \* retry_with_backoff: the last sleep (half seconds)
  finished,          \* what the call returned or raised (Optional)
  trace              \* history: the outcome of each call of func, in order

dvars == <<handlers, marker, running, startup_handler, shutdown_handler>>
lvars == <<updates, new_marker, idx, hidx>>
gvars == <<invoked, fetchMarker, cycle, hist>>
rvars == <<rpc, max_retries, max_delay, delay, last_exception, attempt,
           wait_time, finished, trace>>
llmvars == <<sessions, max_history, sent, rvars>>
vars  == <<dvars, pc, lvars, gvars, llmvars>>

\* GigaChatClient.__init__: max_history (default 10), self.sessions = {}
DefaultMaxHistory == 10
ClientInit(m) ==
  /\ sessions = [sid \in {} |-> <<>>]
  /\ max_history = m
  /\ sent = 0

\* retry_with_backoff has not been called
RetryIdle ==
  /\ rpc = "idle"
  /\ max_retries = 0
  /\ max_delay = 0
  /\ delay = 0
  /\ last_exception = None
  /\ attempt = 0
  /\ wait_time = 0
  /\ finished = None
  /\ trace = <<>>

Markers == {None} \cup { Some(n) : n \in 0..MaxMarker }

Min(a, b) == IF a <= b THEN a ELSE b

Hist0 ==
  [raisedAt     |-> 0,      \* first record of the page during which a callback raised
   started      |-> <<>>,   \* indices of the page's records, as their processing began
   payload      |-> None,   \* what the last callback run for the current update got
   returned     |-> 0,      \* callbacks that returned normally for the current update
   stopInFlight |-> "no",   \* where the run was when stop() was called (see Stop)
   startup      |-> "no",   \* the startup hook of this run: "no" | "returned" | "raised"
   shutdown     |-> "no",   \* the shutdown hook of this run: "no" | "returned" | "raised"
   shutdownRuns |-> 0,      \* times the shutdown hook ran (saturating)
   failStreak   |-> 0,      \* failed fetches in a row before this cycle (saturating)
   preFail      |-> None,   \* the marker before the first fetch of failStreak
   identity     |-> "no",   \* get_me of this call: "no" | "ok" | "failed"
   escaped      |-> FALSE]  \* an exception left a poll cycle of this call

\* Dispatcher.__init__
Init ==
  /\ handlers = <<>>
  /\ marker = None
  /\ running = FALSE
  /\ startup_handler = FALSE
  /\ shutdown_handler = FALSE
  /\ pc = "init"
  /\ updates = <<>>
  /\ new_marker = None
  /\ idx = 1
  /\ hidx = 1
  /\ invoked = <<>>
  /\ fetchMarker = None
  /\ cycle = "none"
  /\ hist = Hist0
  /\ ClientInit(DefaultMaxHistory)
  /\ RetryIdle

\* ------------------------------------------------------------------- setup
\* variant of Register: the new entry is put in front of the others
RegisterFirst(h) ==
  /\ pc \in {"init", "returned"}
  /\ Len(handlers) < MaxHandlers
  /\ handlers' = <<h>> \o handlers
  /\ UNCHANGED <<marker, running, startup_handler, shutdown_handler, pc, lvars, gvars>>
  /\ UNCHANGED llmvars

\* the registration decorators append to self.handlers; they are applied
\* before start_polling is called or between two calls of it
Register(h) ==
  /\ pc \in {"init", "returned"}
  /\ Len(handlers) < MaxHandlers
  /\ handlers' = Append(handlers, h)
  /\ UNCHANGED <<marker, running, startup_handler, shutdown_handler, pc, lvars, gvars>>
  /\ UNCHANGED llmvars

RegisterStartup ==
  /\ pc = "init"
  /\ ~startup_handler
  /\ startup_handler' = TRUE
  /\ UNCHANGED <<handlers, marker, running, shutdown_handler, pc, lvars, gvars>>
  /\ UNCHANGED llmvars

RegisterShutdown ==
  /\ pc = "init"
  /\ ~shutdown_handler
  /\ shutdown_handler' = TRUE
  /\ UNCHANGED <<handlers, marker, running, startup_handler, pc, lvars, gvars>>
  /\ UNCHANGED llmvars

\* ----------------------------------------------------------- start_polling
\* variant of StartPolling: without the identity the call still goes through
\* its finally block and the shutdown hook
StartPollingCleansUp ==
  /\ pc \in {"init", "returned"}
  /\ \E bot_info \in {"BotInfo", "None"} :
       /\ pc' = IF bot_info = "None" THEN "finally" ELSE "startup"
       /\ hist' = [Hist0 EXCEPT !.identity =
                     IF bot_info = "None" THEN "failed" ELSE "ok"]
  /\ updates' = <<>>
  /\ idx' = 1
  /\ hidx' = 1
  /\ invoked' = <<>>
  /\ UNCHANGED <<dvars, new_marker, fetchMarker, cycle>>
  /\ UNCHANGED llmvars

\* bot_info = self.bot.get_me(), which returns the identity or None;
\* `if not bot_info: return`
StartPolling ==
  /\ pc \in {"init", "returned"}
  /\ \E bot_info \in {"BotInfo", "None"} :
       /\ pc' = IF bot_info = "None" THEN "returned" ELSE "startup"
       /\ hist' = [Hist0 EXCEPT !.identity =
                     IF bot_info = "None" THEN "failed" ELSE "ok"]
  /\ updates' = <<>>    \* a new call: the locals of the previous one are gone
  /\ idx' = 1
  /\ hidx' = 1
  /\ invoked' = <<>>
  /\ UNCHANGED <<dvars, new_marker, fetchMarker, cycle>>
  /\ UNCHANGED llmvars

\* await self._startup_handler() returned
StartupReturned ==
  /\ pc' = "set_running"
  /\ hist' = [hist EXCEPT !.startup = "returned"]

\* variant of StartupRaised: the exception of the hook ends start_polling
StartupRaisedAborts ==
  /\ pc' = "returned"
  /\ hist' = [hist EXCEPT !.startup = "raised"]

\* except Exception: logged; start_polling goes on
StartupRaised ==
  /\ pc' = "set_running"
  /\ hist' = [hist EXCEPT !.startup = "raised"]

\* if hasattr(self, "_startup_handler"): try: await self._startup_handler()
StartupHook ==
  /\ pc = "startup"
  /\ IF startup_handler
       THEN \E outcome \in {"return", "raise"} :
              IF outcome = "return" THEN StartupReturned ELSE StartupRaised
       ELSE pc' = "set_running" /\ UNCHANGED hist
  /\ UNCHANGED <<dvars, lvars, invoked, fetchMarker, cycle>>
  /\ UNCHANGED llmvars

SetRunning ==
  /\ pc = "set_running"
  /\ running' = TRUE
  /\ pc' = "loop"
  /\ UNCHANGED <<handlers, marker, startup_handler, shutdown_handler, lvars, gvars>>
  /\ UNCHANGED llmvars

\* variant of LoopCond: `while True`, the running flag is not consulted
LoopCondAlways == TRUE

LoopCond == running

\* while self.running: await self._poll_updates(...)
LoopCheck ==
  /\ pc = "loop"
  /\ pc' = IF LoopCond THEN "fetch" ELSE "finally"
  /\ hist' = [hist EXCEPT !.stopInFlight =
                IF @ = "startup" /\ LoopCond THEN "no" ELSE @]
  /\ UNCHANGED <<dvars, lvars, invoked, fetchMarker, cycle>>
  /\ UNCHANGED llmvars

\* variant of Finally: the running flag is left as the loop left it
FinallyKeepsRunning ==
  /\ pc = "finally"
  /\ pc' = "shutdown"
  /\ UNCHANGED <<dvars, lvars, gvars>>
  /\ UNCHANGED llmvars

\* finally: self.running = False
Finally ==
  /\ pc = "finally"
  /\ running' = FALSE
  /\ pc' = "shutdown"
  /\ UNCHANGED <<handlers, marker, startup_handler, shutdown_handler, lvars, gvars>>
  /\ UNCHANGED llmvars

\* await self._shutdown_handler() returned
ShutdownReturned ==
  /\ pc' = "returned"
  /\ hist' = [hist EXCEPT !.shutdown = "returned",
                          !.shutdownRuns = Min(@ + 1, MaxStreak)]
  /\ UNCHANGED running

\* variant of ShutdownRaised: the hook's exception leaves start_polling
ShutdownRaisedPropagates ==
  /\ pc' = "propagated"
  /\ hist' = [hist EXCEPT !.shutdown = "raised",
                          !.shutdownRuns = Min(@ + 1, MaxStreak)]
  /\ UNCHANGED running

\* except Exception: logged; start_polling returns
ShutdownRaised ==
  /\ pc' = "returned"
  /\ hist' = [hist EXCEPT !.shutdown = "raised",
                          !.shutdownRuns = Min(@ + 1, MaxStreak)]
  /\ UNCHANGED running

\* if hasattr(self, "_shutdown_handler"): try: await self._shutdown_handler()
ShutdownHook ==
  /\ pc = "shutdown"
  /\ IF shutdown_handler
       THEN \E outcome \in {"return", "raise"} :
              IF outcome = "return" THEN ShutdownReturned ELSE ShutdownRaised
       ELSE pc' = "returned" /\ UNCHANGED <<hist, running>>
  /\ UNCHANGED <<handlers, marker, startup_handler, shutdown_handler, lvars,
                 invoked, fetchMarker, cycle>>
  /\ UNCHANGED llmvars

\* where the run is when stop() is called: before running is set, blocked in
\* get_updates, with records of the page left to process, at the end of the
\* page, or elsewhere ("no")
CyclePhase ==
  IF pc = "startup" THEN "startup"
  ELSE IF pc = "fetch" THEN "fetching"
  ELSE IF pc = "dispatch" \/ (pc = "page" /\ idx <= Len(updates)) THEN "midpage"
  ELSE IF pc = "page" THEN "endpage"
  ELSE "no"

\* variant of Stop: stopping also forgets the cursor
StopResetsMarker ==
  /\ pc \notin {"init", "returned"}
  /\ running' = FALSE
  /\ marker' = None
  /\ hist' = [hist EXCEPT !.stopInFlight =
                IF @ \in {"no", "startup"} /\ CyclePhase # "no" THEN CyclePhase ELSE @]
  /\ UNCHANGED <<handlers, startup_handler, shutdown_handler, pc, lvars,
                 invoked, fetchMarker, cycle>>
  /\ UNCHANGED llmvars

\* Dispatcher.stop, called from a handler, a hook or another task; the history
\* keeps the first place of a call made during a poll cycle, else "startup"
\* for a call made before running was set, until a poll cycle starts
Stop ==
  /\ pc \notin {"init", "returned"}
  /\ running' = FALSE
  /\ hist' = [hist EXCEPT !.stopInFlight =
                IF @ \in {"no", "startup"} /\ CyclePhase # "no" THEN CyclePhase ELSE @]
  /\ UNCHANGED <<handlers, marker, startup_handler, shutdown_handler, pc, lvars,
                 invoked, fetchMarker, cycle>>
  /\ UNCHANGED llmvars

\* ------------------------------------------------------------ _poll_updates
\* What bot.get_updates returns: None on a RequestException, else the JSON
\* dict, whose "updates" and "marker" keys may each be absent (None here).
Results ==
  {None} \cup
  { Some([updates |-> u, marker |-> m]) :
      u \in {None} \cup { Some(p) : p \in Pages }, m \in Markers }

\* variant of ResultFalsy: a result without records counts as a failed fetch
ResultFalsyNoRecords(result) ==
  \/ result = None
  \/ result[1].updates = None
  \/ result[1].updates[1] = <<>>

\* `if not result`: None and the empty dict are falsy
ResultFalsy(result) ==
  result = None \/ (result[1].updates = None /\ result[1].marker = None)

\* variant of NextMarker: `if new_marker:`, which also skips the token 0
NextMarkerTruthy(m, nm) == IF nm # None /\ nm[1] # 0 THEN nm ELSE m

\* variant of NextMarker: the marker is assigned without the None test
NextMarkerAlways(m, nm) == nm

\* if new_marker is not None: self.marker = new_marker
NextMarker(m, nm) == IF nm # None THEN nm ELSE m

\* the previous cycle of this run failed too
InStreak == cycle = "fail" /\ hist.failStreak > 0

\* variant of FetchFailed: the marker is reset when the fetch fails
FetchFailedResets ==
  /\ pc' = "loop"
  /\ cycle' = "fail"
  /\ hist' = [hist EXCEPT !.failStreak = IF InStreak THEN Min(@ + 1, MaxStreak) ELSE 1,
                          !.preFail = IF InStreak THEN @ ELSE marker,
                          !.raisedAt = 0, !.started = <<>>]
  /\ new_marker' = None
  /\ marker' = None
  /\ UNCHANGED <<updates, idx, hidx, invoked>>

\* variant of FetchFailed: a failed fetch ends the polling loop
FetchFailedFatal ==
  /\ pc' = "finally"
  /\ cycle' = "fail"
  /\ hist' = [hist EXCEPT !.failStreak = IF InStreak THEN Min(@ + 1, MaxStreak) ELSE 1,
                          !.preFail = IF InStreak THEN @ ELSE marker,
                          !.raisedAt = 0, !.started = <<>>]
  /\ new_marker' = None
  /\ UNCHANGED <<marker, updates, idx, hidx, invoked>>

\* if not result: time.sleep(5); return
FetchFailed ==
  /\ pc' = "loop"
  /\ cycle' = "fail"
  /\ hist' = [hist EXCEPT !.failStreak = IF InStreak THEN Min(@ + 1, MaxStreak) ELSE 1,
                          !.preFail = IF InStreak THEN @ ELSE marker,
                          !.raisedAt = 0, !.started = <<>>]
  /\ new_marker' = None
  /\ UNCHANGED <<marker, updates, idx, hidx, invoked>>

\* variant of FetchReturned: the marker is set as soon as the page arrives
FetchReturnedEager(result) ==
  /\ pc' = "page"
  /\ updates' = IF result[1].updates = None THEN <<>> ELSE result[1].updates[1]
  /\ new_marker' = result[1].marker
  /\ idx' = 1
  /\ cycle' = "open"
  /\ hist' = [hist EXCEPT !.raisedAt = 0, !.started = <<>>,
                          !.failStreak = IF cycle = "fail" THEN @ ELSE 0,
                          !.preFail = IF cycle = "fail" THEN @ ELSE None]
  /\ marker' = NextMarker(marker, result[1].marker)
  /\ UNCHANGED <<hidx, invoked>>

\* updates = result.get("updates", []); new_marker = result.get("marker")
FetchReturned(result) ==
  /\ pc' = "page"
  /\ updates' = IF result[1].updates = None THEN <<>> ELSE result[1].updates[1]
  /\ new_marker' = result[1].marker
  /\ idx' = 1
  /\ cycle' = "open"
  /\ hist' = [hist EXCEPT !.raisedAt = 0, !.started = <<>>,
                          !.failStreak = IF cycle = "fail" THEN @ ELSE 0,
                          !.preFail = IF cycle = "fail" THEN @ ELSE None]
  /\ UNCHANGED <<marker, hidx, invoked>>

\* result = self.bot.get_updates(marker=self.marker, ...)
GetUpdates ==
  /\ pc = "fetch"
  /\ fetchMarker' = marker
  /\ \E result \in Results :
       IF ResultFalsy(result) THEN FetchFailed ELSE FetchReturned(result)
  /\ UNCHANGED <<handlers, running, startup_handler, shutdown_handler>>
  /\ UNCHANGED llmvars

\* variant of PageDone: the page may be left with its last record unprocessed
PageDoneEarly == idx >= Len(updates)

\* the for loop over the page is exhausted
PageDone == idx > Len(updates)

\* variant of Classify: process_update is not awaited before the next record
ClassifyConcurrent ==
  /\ pc \in {"page", "dispatch"}
  /\ ~PageDone
  /\ hist' = [hist EXCEPT !.started = Append(@, idx), !.payload = None,
                          !.returned = 0]
  /\ invoked' = <<>>
  /\ IF FromDictRaises(updates[idx])
       THEN /\ idx' = idx + 1
            /\ UNCHANGED <<pc, hidx>>
       ELSE /\ pc' = "dispatch"
            /\ hidx' = 1
            /\ UNCHANGED idx
  /\ UNCHANGED <<dvars, updates, new_marker, fetchMarker, cycle>>
  /\ UNCHANGED llmvars

\* variant of Classify: a record that cannot be classified ends the page
ClassifyAbortsPage ==
  /\ pc = "page"
  /\ ~PageDone
  /\ hist' = [hist EXCEPT !.started = Append(@, idx), !.payload = None,
                          !.returned = 0]
  /\ invoked' = <<>>
  /\ IF FromDictRaises(updates[idx])
       THEN /\ idx' = Len(updates) + 1
            /\ UNCHANGED <<pc, hidx>>
       ELSE /\ pc' = "dispatch"
            /\ hidx' = 1
            /\ UNCHANGED idx
  /\ UNCHANGED <<dvars, updates, new_marker, fetchMarker, cycle>>
  /\ UNCHANGED llmvars

\* for update_data in updates: update = Update.from_dict(update_data)
Classify ==
  /\ pc = "page"
  /\ ~PageDone
  /\ hist' = [hist EXCEPT !.started = Append(@, idx), !.payload = None,
                          !.returned = 0]
  /\ invoked' = <<>>
  /\ IF FromDictRaises(updates[idx])
       THEN /\ idx' = idx + 1          \* except Exception: logged, next record
            /\ UNCHANGED <<pc, hidx>>
       ELSE /\ pc' = "dispatch"        \* await self.process_update(update)
            /\ hidx' = 1
            /\ UNCHANGED idx
  /\ UNCHANGED <<dvars, updates, new_marker, fetchMarker, cycle>>
  /\ UNCHANGED llmvars

\* end of the page: the marker update, then _poll_updates returns
EndOfPage ==
  /\ pc = "page"
  /\ PageDone
  /\ marker' = NextMarker(marker, new_marker)
  /\ pc' = "loop"
  /\ cycle' = "ok"
  /\ updates' = <<>>    \* the locals of _poll_updates end with the call;
  /\ idx' = 1           \* new_marker is kept as the history of the cycle
  /\ hidx' = 1
  /\ invoked' = <<>>
  /\ hist' = [hist EXCEPT !.payload = None, !.returned = 0]
  /\ UNCHANGED <<handlers, running, startup_handler, shutdown_handler,
                 new_marker, fetchMarker>>
  /\ UNCHANGED llmvars

\* ----------------------------------------------------------- process_update
update == UpdateFromDict(updates[idx])

\* the first handler at or after position k whose check passes, 0 if none
RECURSIVE NextMatch(_, _, _)
NextMatch(hs, u, k) ==
  IF k > Len(hs) THEN 0
  ELSE IF HandlerCheck(hs[k], u) THEN k
  ELSE NextMatch(hs, u, k + 1)

\* variant of HandlerReturned: no break, the scan goes on after a callback
\* that returned
HandlerReturnedContinues(i) ==
  /\ hidx' = i + 1
  /\ hist' = [hist EXCEPT !.payload = Some(HandlePayload(update)),
                          !.returned = @ + 1]
  /\ UNCHANGED <<pc, idx>>

\* handler.handle returned: break, process_update returns
HandlerReturned(i) ==
  /\ pc' = "page"
  /\ idx' = idx + 1
  /\ hist' = [hist EXCEPT !.payload = Some(HandlePayload(update)),
                          !.returned = @ + 1]
  /\ UNCHANGED hidx

\* variant of HandlerRaised: the exception is not caught and ends the loop
HandlerRaisedAborts(i) ==
  /\ hidx' = i + 1
  /\ hist' = [hist EXCEPT !.raisedAt = IF @ = 0 THEN idx ELSE @,
                          !.payload = Some(HandlePayload(update))]
  /\ pc' = "finally"
  /\ UNCHANGED idx

\* except Exception: logged; the for loop goes on with the next handler
HandlerRaised(i) ==
  /\ hidx' = i + 1
  /\ hist' = [hist EXCEPT !.raisedAt = IF @ = 0 THEN idx ELSE @,
                          !.payload = Some(HandlePayload(update))]
  /\ UNCHANGED <<pc, idx>>

\* for handler in self.handlers: if handler.check(update): await handler.handle
InvokeHandler ==
  /\ pc = "dispatch"
  /\ LET i == NextMatch(handlers, update, hidx) IN
       /\ i # 0
       /\ invoked' = Append(invoked, i)
       /\ \E outcome \in {"return", "raise"} :
            IF outcome = "return" THEN HandlerReturned(i) ELSE HandlerRaised(i)
  /\ UNCHANGED <<dvars, updates, new_marker, fetchMarker, cycle>>
  /\ UNCHANGED llmvars

\* variant of NoMatch: an update without handler ends the page
NoMatchEndsPage ==
  /\ pc = "dispatch"
  /\ NextMatch(handlers, update, hidx) = 0
  /\ pc' = "page"
  /\ idx' = Len(updates) + 1
  /\ UNCHANGED <<dvars, updates, new_marker, hidx, gvars>>
  /\ UNCHANGED llmvars

\* the handler loop ends without a (further) match
NoMatch ==
  /\ pc = "dispatch"
  /\ NextMatch(handlers, update, hidx) = 0
  /\ pc' = "page"
  /\ idx' = idx + 1
  /\ UNCHANGED <<dvars, updates, new_marker, hidx, gvars>>
  /\ UNCHANGED llmvars

\* -------------------------------------------------- exceptions that escape
\* a callback raises a BaseException (KeyboardInterrupt, CancelledError):
\* neither `except Exception` catches it, start_polling's finally runs
Interrupt ==
  /\ pc = "dispatch"
  /\ LET i == NextMatch(handlers, update, hidx) IN
       /\ i # 0
       /\ invoked' = Append(invoked, i)
  /\ pc' = "finally"
  /\ cycle' = "crashed"
  /\ hist' = [hist EXCEPT !.payload = Some(HandlePayload(update)),
                          !.escaped = TRUE]
  /\ UNCHANGED <<dvars, lvars, fetchMarker>>
  /\ UNCHANGED llmvars

\* variant of TransportRaises: the loop takes the exception as a failed fetch
\* and polls again
TransportRaisesRetried ==
  /\ pc = "fetch"
  /\ fetchMarker' = marker
  /\ pc' = "loop"
  /\ cycle' = "crashed"
  /\ hist' = [hist EXCEPT !.escaped = TRUE]
  /\ UNCHANGED <<dvars, lvars, invoked>>
  /\ UNCHANGED llmvars

\* get_updates raises something other than RequestException, or returns a
\* value without .get: start_polling's `except Exception` ends the loop
TransportRaises ==
  /\ pc = "fetch"
  /\ fetchMarker' = marker
  /\ pc' = "finally"
  /\ cycle' = "crashed"
  /\ hist' = [hist EXCEPT !.escaped = TRUE]
  /\ UNCHANGED <<dvars, lvars, invoked>>
  /\ UNCHANGED llmvars

\* ------------------------------------------------------------ specifications
Next ==
  \/ \E h \in Registrations : Register(h)
  \/ RegisterStartup
  \/ RegisterShutdown
  \/ StartPolling
  \/ StartupHook
  \/ SetRunning
  \/ LoopCheck
  \/ GetUpdates
  \/ Classify
  \/ InvokeHandler
  \/ NoMatch
  \/ EndOfPage
  \/ Stop
  \/ Finally
  \/ ShutdownHook

Spec == Init /\ [][Next]_vars

NextCrash == Next \/ Interrupt \/ TransportRaises

SpecCrash == Init /\ [][NextCrash]_vars

\* The states of the lifecycle, by the position of start_polling: before it is
\* called and after it returned, up to `self.running = True`, the while loop,
\* the finally block.
LifecycleState ==
  CASE pc \in {"init", "returned"}                -> "STOPPED"
    [] pc \in {"startup", "set_running"}          -> "STARTING"
    [] pc \in {"loop", "fetch", "page", "dispatch"} -> "POLLING"
    [] pc \in {"finally", "shutdown"}             -> "STOPPING"
    [] OTHER                                      -> "NONE"

\* One dispatcher with its registrations made, polled by an event loop that
\* keeps running the coroutine: the while test is taken whenever it is reached.
InitLive ==
  /\ handlers = <<MessageDeco("hello", <<>>, None, Some(S_hi)),
                  UpdateDeco("any_update", <<>>)>>
  /\ marker = None
  /\ running = FALSE
  /\ startup_handler = TRUE
  /\ shutdown_handler = TRUE
  /\ pc = "init"
  /\ updates = <<>>
  /\ new_marker = None
  /\ idx = 1
  /\ hidx = 1
  /\ invoked = <<>>
  /\ fetchMarker = None
  /\ cycle = "none"
  /\ hist = Hist0
  /\ ClientInit(DefaultMaxHistory)
  /\ RetryIdle

NextLive ==
  \/ StartPolling
  \/ StartupHook
  \/ SetRunning
  \/ LoopCheck
  \/ GetUpdates
  \/ Classify
  \/ InvokeHandler
  \/ NoMatch
  \/ EndOfPage
  \/ Stop
  \/ Finally
  \/ ShutdownHook

SpecLive == InitLive /\ [][NextLive]_vars /\ WF_vars(LoopCheck)

\* process_update called directly, as a coroutine of its own, on a dispatcher
\* whose registrations are made: any list of handlers built by the decorators,
\* any classifiable record.
DispatchRegistrations ==
  { MessageDeco("hello", <<>>, None, Some(S_hi)),
    MessageDeco("start", <<>>, Some(S_start), None),
    MessageDeco("both", <<TextFilter(<<>>, Some(<<"t">>))>>, Some(S_start), None),
    MessageDeco("echo", <<>>, None, None),
    CallbackQueryDeco("button", <<>>, Some(S_btn)),
    UpdateDeco("any_update", <<>>),
    UpdateDeco("on_start", <<"bot_started">>) }

DispatchRecords ==
  { RawMsgHi, RawStart, RawEdited, RawCallback, RawBotStarted, RawNoMessage,
    RawUnknownKind }

HandlerLists ==
  UNION { [1..n -> DispatchRegistrations] : n \in 0..MaxHandlers }

InitDispatch ==
  /\ handlers \in HandlerLists
  /\ marker = None
  /\ running = FALSE
  /\ startup_handler = FALSE
  /\ shutdown_handler = FALSE
  /\ pc = "dispatch"
  /\ \E raw \in DispatchRecords : updates = <<raw>>
  /\ new_marker = None
  /\ idx = 1
  /\ hidx = 1
  /\ invoked = <<>>
  /\ fetchMarker = None
  /\ cycle = "none"
  /\ hist = Hist0
  /\ ClientInit(DefaultMaxHistory)
  /\ RetryIdle

NextDispatch == InvokeHandler \/ NoMatch

SpecDispatch == InitDispatch /\ [][NextDispatch]_vars

\* ------------------------------------------------------------ GigaChatClient
SessionIds == {"s1", "s2"}
Roles == {"system", "user", "assistant"}

\* history[-n:] of a Python list: the last n items, and the whole list for n = 0
LastN(history, n) ==
  IF n = 0 \/ n >= Len(history) THEN history
  ELSE SubSeq(history, Len(history) - n + 1, Len(history))

\* get_session_history: the session's list, created empty when absent
SessionsWith(sid) ==
  [x \in DOMAIN sessions \cup {sid} |->
     IF x \in DOMAIN sessions THEN sessions[x] ELSE <<>>]

GetSessionHistory(sid) ==
  /\ sid \notin DOMAIN sessions
  /\ sessions' = SessionsWith(sid)
  /\ UNCHANGED <<max_history, sent, rvars, dvars, pc, lvars, gvars>>

\* add_to_history: append, then truncate when the list is longer than
\* max_history; the content of the message is the number of the call
AddToHistory(sid, role) ==
  /\ sent < MaxAdds
  /\ LET history == Append(SessionsWith(sid)[sid], [role |-> role, content |-> sent])
         kept == IF Len(history) > max_history
                   THEN IF history[1].role = "system"
                          THEN <<history[1]>> \o LastN(history, max_history - 1)
                          ELSE LastN(history, max_history)
                   ELSE history
     IN sessions' = [SessionsWith(sid) EXCEPT ![sid] = kept]
  /\ sent' = sent + 1
  /\ UNCHANGED <<max_history, rvars, dvars, pc, lvars, gvars>>

\* clear_session: del self.sessions[session_id] when present
ClearSession(sid) ==
  /\ sid \in DOMAIN sessions
  /\ sessions' = [x \in DOMAIN sessions \ {sid} |-> sessions[x]]
  /\ UNCHANGED <<max_history, sent, rvars, dvars, pc, lvars, gvars>>

\* A client built with max_history between 1 and MaxKeep, before the
\* dispatcher is started.
InitHistory ==
  /\ handlers = <<>>
  /\ marker = None
  /\ running = FALSE
  /\ startup_handler = FALSE
  /\ shutdown_handler = FALSE
  /\ pc = "init"
  /\ updates = <<>>
  /\ new_marker = None
  /\ idx = 1
  /\ hidx = 1
  /\ invoked = <<>>
  /\ fetchMarker = None
  /\ cycle = "none"
  /\ hist = Hist0
  /\ \E m \in 1..MaxKeep : ClientInit(m)
  /\ RetryIdle

NextHistory ==
  \/ \E sid \in SessionIds : GetSessionHistory(sid)
  \/ \E sid \in SessionIds, role \in Roles : AddToHistory(sid, role)
  \/ \E sid \in SessionIds : ClearSession(sid)

SpecHistory == InitHistory /\ [][NextHistory]_vars

\* One poll cycle of a running dispatcher whose page holds one record of any
\* shape the platform may send: any update_type string or none, each
\* sub-value absent, empty, a dict or of another shape.
RawUserNamed(id, first, last, username) ==
  [shape |-> "dict", user_id |-> id, first_name |-> first,
   last_name |-> last, username |-> username]

ClassifyTypes ==
  UpdateTypeValues \cup {"poll_closed", "", "MESSAGE_CREATED"}

ClassifyMessages ==
  { None, Some([shape |-> "empty"]), Some(BadShape),
    Some(RawMessage(Some(RawUser(1)), Some(S_hi))) }

ClassifyCallbacks == { None, Some(RawCb(Some(RawUser(2)), Some(S_btn))) }

ClassifyUsers ==
  { None, Some([shape |-> "dict"]) } \cup
  { Some(RawUserNamed(3, S_Al, last, username)) :
      last \in {None, Some(<<>>), Some(S_Bo)},
      username \in {None, Some(<<>>), Some(S_al)} }

ClassifyRecords ==
  LET Subs == { [message |-> m, callback |-> c, user |-> u] :
                  m \in ClassifyMessages, c \in ClassifyCallbacks, u \in ClassifyUsers }
  IN Subs \cup { ("update_type" :> t) @@ r : t \in ClassifyTypes, r \in Subs }

InitClassify ==
  /\ handlers \in { <<UpdateDeco("any_update", <<>>)>>,
                     <<MessageDeco("echo", <<>>, None, None)>> }
  /\ marker = None
  /\ running = TRUE
  /\ startup_handler = FALSE
  /\ shutdown_handler = FALSE
  /\ pc = "page"
  /\ \E raw \in ClassifyRecords : updates = <<raw>>
  /\ new_marker = None
  /\ idx = 1
  /\ hidx = 1
  /\ invoked = <<>>
  /\ fetchMarker = None
  /\ cycle = "open"
  /\ hist = Hist0
  /\ ClientInit(DefaultMaxHistory)
  /\ RetryIdle

NextClassify == Classify \/ InvokeHandler \/ NoMatch \/ EndOfPage

SpecClassify == InitClassify /\ [][NextClassify]_vars

\* One poll cycle of a running dispatcher whose handler list holds one
\* Handler(callback, [f]) for every kind, and whose page holds one record.
S_slash_help == <<"/">> \o S_help
S_start_at   == S_slash_start \o <<"@", "b", "o", "t", " ", "a", "r", "g">>
S_start_pad  == <<" ", " ">> \o S_slash_start \o <<" ">>
S_startx     == S_slash_start \o <<"x">>
S_START      == <<"/", "S", "T", "A", "R", "T">>

RawMessageIn(sender, text, recipient) ==
  RawMessage(sender, text) @@ [recipient |-> recipient]

FilterTexts ==
  { None, Some(<<>>), Some(S_hi), Some(S_hill), Some(S_start),
    Some(S_slash_start), Some(S_start_at), Some(S_start_pad), Some(S_startx),
    Some(S_START), Some(<<"/">>), Some(S_slash_help) }

FilterRecipients ==
  { [shape |-> "dict"],
    [shape |-> "dict", chat_type |-> None],
    [shape |-> "dict", chat_type |-> Some("")],
    [shape |-> "dict", chat_type |-> Some("dialog")],
    [shape |-> "dict", chat_type |-> Some("chat")] }

FilterSenders ==
  { None, Some([shape |-> "dict"]), Some(RawUser(0)), Some(RawUser(7)) }

FilterMessages ==
  { None, Some(RawMessage(Some(RawUser(5)), Some(S_hi))) }
    \cup { Some(RawMessageIn(Some(RawUser(5)), t, [shape |-> "dict", chat_type |-> Some("dialog")])) :
             t \in FilterTexts }
    \cup { Some(RawMessageIn(sender, Some(S_hi), r)) :
             sender \in FilterSenders, r \in FilterRecipients }

FilterCallbacks ==
  { None,
    Some(RawCb(Some(RawUser(5)), Some(S_btn))),
    Some(RawCb(Some(RawUser(7)), Some(S_b2))),
    Some(RawCb(Some(RawUser(5)), Some(<<>>))),
    Some(RawCb(None, None)) }

FilterUsers == { None, Some(RawUser(5)) }

FilterRecords ==
  { [update_type |-> IF m # None THEN "message_created"
                     ELSE IF c # None THEN "message_callback"
                     ELSE "bot_started",
     message |-> m, callback |-> c, user |-> u] :
      m \in FilterMessages, c \in FilterCallbacks, u \in FilterUsers }

LeafFilters ==
  { TextFilter(<<S_hi>>, None), TextFilter(<<S_hi, S_start>>, None),
    TextFilter(<<>>, Some(S_il)), TextFilter(<<S_hi>>, Some(S_il)),
    TextFilter(<<>>, None),
    CommandFilter(<<S_start>>), CommandFilter(<<S_slash_start>>),
    CommandFilter(<<S_help, S_slash_start>>), CommandFilter(<<>>),
    CallbackDataFilter(<<S_btn>>, None), CallbackDataFilter(<<>>, Some(S_b)),
    CallbackDataFilter(<<S_btn>>, Some(S_b)), CallbackDataFilter(<<>>, None),
    UserFilter(<<5>>), UserFilter(<<0, 5>>), UserFilter(<<7>>),
    ChatTypeFilter(<<"dialog">>), ChatTypeFilter(<<"chat", "channel">>) }

CombinedLeaves ==
  { TextFilter(<<S_hi>>, None), UserFilter(<<5>>),
    CallbackDataFilter(<<S_btn>>, None) }

\* f & g, f | g, ~f and (a | b) & ~c
CombinedFilters ==
  { OpAnd(f, g) : f \in CombinedLeaves, g \in CombinedLeaves }
    \cup { OpOr(f, g) : f \in CombinedLeaves, g \in CombinedLeaves }
    \cup { OpInvert(f) : f \in CombinedLeaves }
    \cup { OpAnd(OpOr(a, b), OpInvert(c)) :
             a \in CombinedLeaves, b \in CombinedLeaves, c \in CombinedLeaves }

InitFilters ==
  /\ \E f \in LeafFilters \cup CombinedFilters :
       handlers = <<Handler("on_update", <<f>>, <<>>)>>
  /\ marker = None
  /\ running = TRUE
  /\ startup_handler = FALSE
  /\ shutdown_handler = FALSE
  /\ pc = "page"
  /\ \E raw \in FilterRecords : updates = <<raw>>
  /\ new_marker = None
  /\ idx = 1
  /\ hidx = 1
  /\ invoked = <<>>
  /\ fetchMarker = None
  /\ cycle = "open"
  /\ hist = Hist0
  /\ ClientInit(DefaultMaxHistory)
  /\ RetryIdle

NextFilters == Classify \/ InvokeHandler \/ NoMatch \/ EndOfPage

SpecFilters == InitFilters /\ [][NextFilters]_vars

\* One poll cycle of a running dispatcher at the point where get_updates has
\* returned a page of up to MaxPage + 1 records, some of which cannot be
\* classified, with any next-token.
RawBadUser ==
  [update_type |-> "message_callback",
   message |-> None,
   callback |-> Some(RawCb(Some(BadShape), Some(S_btn))),
   user |-> None]

PageRecords == { RawMsgHi, RawCallback, RawMalformed, RawBadUser }

InitPage ==
  /\ handlers = <<MessageDeco("hello", <<>>, None, Some(S_hi)),
                  UpdateDeco("any_update", <<>>)>>
  /\ marker \in Markers
  /\ running = TRUE
  /\ startup_handler = FALSE
  /\ shutdown_handler = FALSE
  /\ pc = "page"
  /\ updates \in UNION { [1..n -> PageRecords] : n \in 1..(MaxPage + 1) }
  /\ new_marker \in Markers
  /\ idx = 1
  /\ hidx = 1
  /\ invoked = <<>>
  /\ fetchMarker = marker
  /\ cycle = "open"
  /\ hist = Hist0
  /\ ClientInit(DefaultMaxHistory)
  /\ RetryIdle

SpecPage == InitPage /\ [][NextClassify]_vars

\* ===================================================================== claims
\* the update whose handlers `invoked` lists: the record in dispatch, or the
\* one whose dispatch has just ended
LastUpdate ==
  UpdateFromDict(updates[IF pc = "dispatch" THEN idx ELSE idx - 1])

Ident(n) == [k \in 1..n |-> k]

\* stop() was called while a poll cycle of this run was in flight
StoppedInCycle == hist.stopInFlight \in {"fetching", "midpage", "endpage"}

\* C1: for every handler list and update, the only callback process_update
\* invokes is that of the first handler, in registration order, whose kind-set
\* and filters match the update; no other handler runs for that update.
C1_OnlyFirstMatchInvoked ==
  (pc \in {"dispatch", "page"} /\ invoked # <<>>) =>
    invoked = <<NextMatch(handlers, LastUpdate, 1)>>

\* C2: once the callback of a matching handler has raised during the dispatch
\* of an update, no further handler's callback is invoked for that update.
C2_NoHandlerAfterRaise ==
  [][(pc = "dispatch" /\ invoked # <<>>) => Len(invoked') <= Len(invoked)]_vars

\* C3: a poll cycle whose fetch fails processes no record and leaves the
\* cursor as it was, the next fetch is issued with the same cursor, and the
\* successful cycle that ends a streak of failures sets the cursor to its
\* next-token.
C3_FailedFetchKeepsCursor ==
  /\ (cycle = "fail" /\ hist.failStreak >= 1) =>
       /\ pc \notin {"page", "dispatch"}
       /\ hist.started = <<>>
       /\ marker = hist.preFail
       /\ fetchMarker = hist.preFail
  /\ (cycle = "open" /\ hist.failStreak >= 1) =>
       /\ marker = hist.preFail
       /\ fetchMarker = hist.preFail
  /\ (cycle = "ok" /\ hist.failStreak >= 1) =>
       /\ fetchMarker = hist.preFail
       /\ marker = IF new_marker # None THEN new_marker ELSE hist.preFail

C3_Witness ==
  /\ cycle = "ok"
  /\ hist.failStreak = 2
  /\ hist.preFail # None
  /\ new_marker # None
  /\ marker = new_marker
  /\ marker # hist.preFail

\* C4: the cursor changes only in the step that ends a page, when every record
\* of the page has been processed, and it then becomes the page's next-token;
\* a page without next-token leaves it unchanged.
C4_CursorSetAfterWholePage ==
  [][marker' # marker =>
       /\ pc = "page"
       /\ pc' = "loop"
       /\ idx = Len(updates) + 1
       /\ hist.started = Ident(Len(updates))
       /\ new_marker # None
       /\ marker' = new_marker]_vars

C4_Witness ==
  /\ cycle = "ok"
  /\ Len(hist.started) >= 2
  /\ marker = new_marker
  /\ marker # fetchMarker

\* C5 as stated: after a successful poll cycle the cursor equals the
\* next-token that cycle returned.
C5_CursorIsNthToken ==
  cycle = "ok" => marker = new_marker

\* C5 as amended: after a successful poll cycle the cursor equals the
\* next-token that cycle returned if it returned one, and otherwise the value
\* the cursor had when the cycle's fetch was issued.
C5_CursorIsLastReturnedToken ==
  cycle = "ok" => marker = (IF new_marker # None THEN new_marker ELSE fetchMarker)

C5_Witness ==
  /\ cycle = "ok"
  /\ new_marker = None
  /\ marker # None

\* C6 as stated: each new cursor value is >= the previous one.
C6_CursorNeverGoesBack ==
  [][(marker # None /\ marker' # None) => marker'[1] >= marker[1]]_vars

\* C6 as amended: the cursor is never reset to null and changes only to the
\* next-token the transport returned for the fetch issued with the current
\* cursor; the code compares nothing, so the cursor goes back exactly when the
\* transport returns a smaller token.
C6_CursorFollowsTransport ==
  [][/\ (marker # None => marker' # None)
     /\ (marker' # marker => marker' = new_marker /\ marker = fetchMarker)]_vars

C6_Witness ==
  /\ cycle = "ok"
  /\ fetchMarker # None
  /\ marker # None
  /\ marker[1] < fetchMarker[1]

\* C7: while a fetched page has records left to process, and after an
\* exception has escaped the cycle, the cursor is the one the fetch was issued
\* with, and the next fetch is issued with that same cursor.
C7_AtLeastOnce ==
  [][/\ (cycle' = "open" /\ pc' \in {"page", "dispatch"} /\ idx' <= Len(updates'))
          => marker' = fetchMarker'
     /\ cycle' = "crashed" => marker' = fetchMarker'
     /\ (cycle = "crashed" /\ pc = "fetch") => fetchMarker' = fetchMarker]_vars

C7_Witness ==
  /\ cycle = "crashed"
  /\ pc = "returned"
  /\ idx > 1
  /\ idx <= Len(updates)
  /\ new_marker # None
  /\ new_marker # marker

\* C8: a callback that raises does not end the page: the step leaves
\* process_update running and the cursor, the running flag and the page as
\* they are, the page is left only by its end-of-page step, which finds every
\* record processed and sets the cursor to the next-token.
C8_RaiseDoesNotAbortPage ==
  [][/\ (pc = "dispatch" /\ hidx' > hidx) =>
          /\ pc' = "dispatch"
          /\ idx' = idx /\ updates' = updates
          /\ marker' = marker /\ running' = running /\ cycle' = "open"
     /\ (hist.raisedAt # 0 /\ cycle = "open") =>
          \/ pc' \in {"page", "dispatch"} /\ cycle' = "open"
          \/ /\ pc = "page" /\ pc' = "loop" /\ cycle' = "ok"
             /\ hist.started = Ident(Len(updates))
             /\ hist.raisedAt < idx
             /\ marker' = (IF new_marker # None THEN new_marker ELSE marker)
             /\ running' = running]_vars

C8_Witness ==
  /\ cycle = "ok"
  /\ pc = "fetch"
  /\ hist.raisedAt = 1
  /\ Len(hist.started) >= 2
  /\ marker = new_marker
  /\ marker # fetchMarker

\* C9: the records of a page are taken in array order, each only once the
\* dispatch of the one before has ended, the page is left only when all of
\* them have been processed, and a fetch is issued only from the loop head,
\* never while a page is open.
C9_SequentialDispatch ==
  [][/\ (hist'.started # hist.started /\ hist'.started # <<>>) =>
          /\ pc = "page"
          /\ idx = Len(hist.started) + 1
          /\ hist'.started = Append(hist.started, idx)
     /\ (pc = "page" /\ pc' = "loop") => hist.started = Ident(Len(updates))
     /\ (pc' = "fetch" /\ pc # "fetch") => (pc = "loop" /\ cycle # "open")]_vars

C9_Witness ==
  /\ pc = "dispatch"
  /\ hist.started = <<1, 2>>

\* C10: after stop() is called during a poll cycle no further fetch is
\* issued, the loop is left only from its head once that cycle has ended (its
\* page processed to the last record and the cursor set), and the shutdown
\* hook, when registered, has run exactly once when start_polling returns.
C10_StopCompletesCycle ==
  [][StoppedInCycle =>
       /\ ~(pc = "loop" /\ pc' = "fetch")
       /\ (pc = "page" /\ pc' = "loop") =>
            /\ hist.started = Ident(Len(updates))
            /\ marker' = (IF new_marker # None THEN new_marker ELSE marker)
       /\ pc' = "finally" =>
            /\ pc \in {"loop", "finally"}
            /\ cycle \in {"ok", "fail"}
            /\ hist.stopInFlight = "midpage" => cycle = "ok"
       /\ (pc = "shutdown" /\ pc' = "returned") =>
            hist'.shutdownRuns = (IF shutdown_handler THEN 1 ELSE 0)]_vars

C10_Witness ==
  /\ pc = "returned"
  /\ hist.stopInFlight = "midpage"
  /\ hist.shutdownRuns = 1
  /\ cycle = "ok"
  /\ Len(hist.started) >= 2
  /\ marker = new_marker
  /\ marker # fetchMarker

\* C11: once stop() has been called in a run of start_polling, during the
\* startup hook or during a poll cycle, no poll cycle is started: the loop head
\* is never left for a fetch.
C11_NoCycleAfterStop ==
  [][hist.stopInFlight # "no" => ~(pc = "loop" /\ pc' = "fetch")]_vars

\* C12: a startup hook that raises does not abort startup: the hook's step
\* leaves the dispatcher as a returning hook does and goes on to the
\* assignment of running, which sets it to true and enters the loop, and the
\* loop then issues a fetch while running is true.
C12_StartupRaiseSwallowed ==
  [][/\ (pc = "startup" /\ pc' # pc) =>
          (pc' = "set_running" /\ dvars' = dvars /\ lvars' = lvars)
     /\ (pc = "set_running" /\ pc' # pc) => (pc' = "loop" /\ running')
     /\ (hist.startup = "raised" /\ pc = "loop" /\ running /\ pc' # pc) =>
          pc' = "fetch"]_vars

C12_Witness ==
  /\ hist.startup = "raised"
  /\ pc = "dispatch"
  /\ running

\* C13: when the shutdown hook has raised, start_polling has returned
\* normally and running is false.
C13_ShutdownRaiseNotPropagated ==
  hist.shutdown = "raised" => (pc = "returned" /\ ~running)

C13_Witness ==
  /\ hist.shutdown = "raised"
  /\ pc = "returned"
  /\ cycle = "ok"
  /\ hist.started # <<>>

\* C14: a failed fetch leaves the loop at its head with the running flag as
\* it was, however many fetches failed before it, and from the loop head
\* after a failed fetch, with running true, a fetch is eventually issued
\* unless stop() is called.
C14_FailedFetchNotFatal ==
  /\ [][(pc = "fetch" /\ pc' # pc /\ cycle' = "fail") =>
          (pc' = "loop" /\ running' = running)]_vars
  /\ ((pc = "loop" /\ cycle = "fail" /\ running) ~> (pc = "fetch" \/ ~running))

C14_Witness ==
  /\ pc = "fetch"
  /\ cycle = "fail"
  /\ hist.failStreak = MaxStreak
  /\ running

\* C15: the lifecycle goes STOPPED, STARTING, POLLING, STOPPING, STOPPED; in a
\* run the startup hook runs at most once, before any fetch or dispatch, once
\* the shutdown hook has run the run is over, and running is true only in
\* POLLING and up to the assignment of the finally block.
C15_LifecycleOrder ==
  /\ [][/\ LifecycleState' # LifecycleState =>
             <<LifecycleState, LifecycleState'>> \in
               { <<"STOPPED", "STARTING">>, <<"STARTING", "POLLING">>,
                 <<"POLLING", "STOPPING">>, <<"STOPPING", "STOPPED">> }
        /\ (hist'.startup # hist.startup /\ hist'.startup # "no") =>
             (hist.startup = "no" /\ pc = "startup")
        /\ (pc' \in {"fetch", "page", "dispatch"} /\ startup_handler) =>
             hist'.startup # "no"
        /\ hist'.shutdown # hist.shutdown =>
             \/ (pc = "shutdown" /\ hist.shutdown = "no" /\ pc' = "returned")
             \/ (pc = "returned" /\ hist'.shutdown = "no")]_vars
  /\ [](hist.shutdown # "no" => (pc = "returned" /\ hist.shutdownRuns = 1))
  /\ [](running => pc \in {"loop", "fetch", "page", "dispatch", "finally"})

C15_Witness ==
  /\ pc = "returned"
  /\ hist.startup # "no"
  /\ hist.shutdown # "no"
  /\ cycle = "ok"
  /\ Len(hist.started) >= 2

\* C16: the cursor is null until the first run of start_polling, and a step
\* changes it only as the end-of-page step of an open poll cycle, which ends
\* that cycle; registration, the steps of process_update, stop() and the
\* startup and shutdown hooks leave it as it is.
C16_CursorOwnedByPollLoop ==
  /\ [](pc = "init" => marker = None)
  /\ [][/\ marker' # marker =>
             (pc = "page" /\ idx > Len(updates) /\ cycle = "open" /\ cycle' = "ok")
        /\ (\/ handlers' # handlers
            \/ pc \in {"dispatch", "startup", "set_running", "finally", "shutdown"}
            \/ (running /\ ~running')) => marker' = marker]_vars

C16_Witness ==
  /\ pc = "shutdown"
  /\ marker # None
  /\ marker = new_marker
  /\ hist.raisedAt # 0
  /\ hist.stopInFlight = "midpage"
  /\ hist.startup # "no"
  /\ Len(handlers) = MaxHandlers

\* the kind-set test and the filter test of a handler entry, as two conjuncts
KindAccepted(h, u) ==
  h.update_types = <<>> \/
  u.update_type.value \in { h.update_types[i] : i \in 1..Len(h.update_types) }

AllFiltersPass(h, u) == \A i \in 1..Len(h.filters) : FilterCheck(h.filters[i], u)

\* C17: a handler entry matches an update iff its kind-set is empty or
\* contains the update's kind and every filter of its list is true; an entry
\* with an empty filter list matches every update of its kind-set; the
\* callbacks process_update runs are those of matching entries, and the
\* entries it passes over do not match.
C17_HandlerMatch ==
  pc \in {"dispatch", "page"} =>
    LET u == LastUpdate
        last == IF invoked = <<>> THEN 0 ELSE invoked[Len(invoked)]
    IN /\ \A j \in 1..Len(handlers) :
            /\ HandlerCheck(handlers[j], u) <=>
                 (KindAccepted(handlers[j], u) /\ AllFiltersPass(handlers[j], u))
            /\ (handlers[j].filters = <<>> /\ KindAccepted(handlers[j], u)) =>
                 HandlerCheck(handlers[j], u)
       /\ \A j \in 1..last :
            (\E k \in 1..Len(invoked) : invoked[k] = j) <=>
              (KindAccepted(handlers[j], u) /\ AllFiltersPass(handlers[j], u))
       /\ (pc = "page" /\ invoked = <<>>) =>
            \A j \in 1..Len(handlers) :
              ~(KindAccepted(handlers[j], u) /\ AllFiltersPass(handlers[j], u))

C17_Witness ==
  /\ pc = "page"
  /\ invoked = <<2>>
  /\ handlers[2].filters = <<>>
  /\ handlers[2].update_types # <<>>
  /\ Len(handlers[1].filters) = 2
  /\ KindAccepted(handlers[1], LastUpdate)

\* C18: a step changes the handler list only by appending one entry built by
\* a registration decorator, the entries already there staying where and as
\* they are; it is a registration step, no step of a dispatch or a poll
\* cycle; and a registration always appends, whether or not an equal entry
\* is in the list.
C18_RegistrationAppends ==
  /\ [][handlers' # handlers =>
          /\ \E h \in Registrations : handlers' = Append(handlers, h)
          /\ pc \in {"init", "returned"}
          /\ <<marker, running, startup_handler, shutdown_handler, pc, lvars, gvars>>'
               = <<marker, running, startup_handler, shutdown_handler, pc, lvars, gvars>>]_vars
  /\ [](\A h \in Registrations :
          (pc \in {"init", "returned"} /\ Len(handlers) < MaxHandlers) =>
            ENABLED (Register(h) /\ handlers' = Append(handlers, h)))

C18_Witness ==
  /\ pc = "returned"
  /\ Len(handlers) = MaxHandlers
  /\ \E i, j \in 1..Len(handlers) : i < j /\ handlers[i] = handlers[j]
  /\ cycle = "crashed"
  /\ invoked # <<>>
  /\ hist.raisedAt # 0

\* C19: the callback that was invoked got the update's message when the
\* kind is message_created or message_edited, its callback when the kind is
\* message_callback, and the update itself for every other kind; a
\* message_created update with text "/start" matched by the command filter
\* for "start" hands over a message whose text is "/start".
C19_KindAppropriatePayload ==
  hist.payload # None =>
    LET u == LastUpdate
        p == hist.payload[1]
        h == handlers[invoked[Len(invoked)]]
    IN /\ u.update_type.value \in {"message_created", "message_edited"} =>
            (p.kind = "Message" /\ p.value = u.message)
       /\ u.update_type.value = "message_callback" =>
            (p.kind = "Callback" /\ p.value = u.callback)
       /\ u.update_type.value \notin
              {"message_created", "message_edited", "message_callback"} =>
            (p.kind = "Update" /\ p.value = Some(u))
       /\ (updates[1] = RawStart /\ h.filters = <<CommandFilter(<<S_start>>)>>) =>
            (p.kind = "Message" /\ p.value # None
               /\ p.value[1].text = Some(S_slash_start))

C19_Witness ==
  /\ pc = "page"
  /\ updates = <<RawStart>>
  /\ invoked # <<>>
  /\ handlers[invoked[Len(invoked)]].filters = <<CommandFilter(<<S_start>>)>>
  /\ hist.payload # None
  /\ hist.payload[1].kind = "Message"
  /\ hist.payload[1].value[1].text = Some(S_slash_start)

\* C20: when no handler matches the update, process_update ends without
\* having called any callback and without raising: the step leaves handlers,
\* cursor and running flag as they are and hands the page on to its next
\* record.
C20_NoMatchIsNoOp ==
  /\ [](( pc = "dispatch" /\ NextMatch(handlers, update, 1) = 0) =>
          (invoked = <<>> /\ hist.payload = None))
  /\ [][(pc = "dispatch" /\ NextMatch(handlers, update, 1) = 0 /\ pc' # pc) =>
          /\ pc' = "page"
          /\ idx' = idx + 1
          /\ updates' = updates
          /\ invoked' = <<>>
          /\ dvars' = dvars
          /\ hist' = hist
          /\ cycle' = cycle]_vars

C20_Witness ==
  /\ pc = "page"
  /\ idx = 2
  /\ Len(updates) = 2
  /\ handlers # <<>>
  /\ ~FromDictRaises(updates[1])
  /\ NextMatch(handlers, UpdateFromDict(updates[1]), 1) = 0
  /\ invoked = <<>>
  /\ hist.started = <<1>>
  /\ marker = fetchMarker

\* every sub-value of the record that is not empty is a dict, down to the
\* sender of the message and the user of the callback
WellShaped(raw) ==
  /\ \A key \in {"message", "callback", "user"} :
       raw[key] # None => raw[key][1].shape \in {"dict", "empty"}
  /\ (raw.message # None /\ raw.message[1].shape = "dict"
        /\ raw.message[1].sender # None) =>
       raw.message[1].sender[1].shape \in {"dict", "empty"}
  /\ (raw.callback # None /\ raw.callback[1].shape = "dict"
        /\ raw.callback[1].user # None) =>
       raw.callback[1].user[1].shape = "dict"

\* C21: the kind of a classified record is the member of the enumeration whose
\* value is the record's update_type when it is one of the 12 values, and
\* otherwise the string itself, unchanged ("" when the record has no
\* update_type); no record is left unclassified because of its update_type.
C21_KindEnumOrVerbatim ==
  /\ pc = "dispatch" =>
       LET raw == updates[idx]
           str == IF "update_type" \in DOMAIN raw THEN raw.update_type ELSE ""
           kind == update.update_type
       IN /\ str \in UpdateTypeValues =>
               /\ kind.known
               /\ kind.member # None
               /\ UpdateTypeMembers[kind.member[1]] = str
               /\ kind.value = str
          /\ str \notin UpdateTypeValues =>
               (~kind.known /\ kind.member = None /\ kind.value = str)
  /\ (pc = "page" /\ idx = 2 /\ hist.started = <<1>>
        /\ invoked = <<>> /\ handlers[1].update_types = <<>>) =>
       ~WellShaped(updates[1])

C21_Witness ==
  /\ pc = "page"
  /\ idx = 2
  /\ invoked = <<1>>
  /\ hist.payload # None
  /\ hist.payload[1].kind = "Update"
  /\ hist.payload[1].value[1].update_type =
       [known |-> FALSE, value |-> "poll_closed", member |-> None]

\* C22: the classification of a record never raises, whatever the shape of
\* its sub-values: the step that takes a record from the page hands an Update
\* to process_update, in which the message, the callback and the user are
\* present iff the record has a non-empty value under that key.
C22_ClassifyNeverRaises ==
  [][(pc = "page" /\ ~PageDone /\ <<pc, idx>>' # <<pc, idx>>) =>
       /\ pc' = "dispatch"
       /\ LET raw == updates[idx]
              u == UpdateFromDict(raw)
          IN /\ u.message # None <=>
                  (raw.message # None /\ raw.message[1] # [shape |-> "empty"])
             /\ u.callback # None <=>
                  (raw.callback # None /\ raw.callback[1] # [shape |-> "empty"])
             /\ u.user # None <=>
                  (raw.user # None /\ raw.user[1] # [shape |-> "empty"])]_vars

\* C29: for the user of an update handed to a callback, full_name is the
\* first name, a space and the last name when there is a last name, else the
\* first name; mention is "@" and the username when there is a username,
\* else the first name.
C29_DisplayName ==
  (hist.payload # None /\ hist.payload[1].kind = "Update"
     /\ hist.payload[1].value[1].user # None) =>
    LET user == hist.payload[1].value[1].user[1]
        noLast == user.last_name \in {None, Some(<<>>)}
        noName == user.username \in {None, Some(<<>>)}
    IN /\ noLast => FullName(user) = user.first_name
       /\ ~noLast =>
            /\ Len(FullName(user)) = Len(user.first_name) + 1 + Len(user.last_name[1])
            /\ SubSeq(FullName(user), 1, Len(user.first_name)) = user.first_name
            /\ FullName(user)[Len(user.first_name) + 1] = " "
            /\ SubSeq(FullName(user), Len(user.first_name) + 2, Len(FullName(user)))
                 = user.last_name[1]
       /\ noName => Mention(user) = user.first_name
       /\ ~noName =>
            (Head(Mention(user)) = "@" /\ Tail(Mention(user)) = user.username[1])
       /\ (user.first_name = S_Al /\ user.last_name = Some(S_Bo)) =>
            FullName(user) = <<"A", "l", " ", "B", "o">>

C29_Witness ==
  /\ hist.payload # None
  /\ hist.payload[1].kind = "Update"
  /\ hist.payload[1].value[1].user # None
  /\ hist.payload[1].value[1].user[1].last_name = Some(S_Bo)
  /\ hist.payload[1].value[1].user[1].username = Some(S_al)
  /\ FullName(hist.payload[1].value[1].user[1]) = <<"A", "l", " ", "B", "o">>
  /\ Mention(hist.payload[1].value[1].user[1]) = <<"@", "a", "l">>

\* the filter of the only handler, the update the page's record was classified
\* as, and whether the handler's callback ran for it
TheFilter == handlers[1].filters[1]
TheUpdate == UpdateFromDict(updates[1])
Ran == invoked = <<1>>
Dispatched == pc = "page" /\ idx = 2 /\ hist.started = <<1>>

\* C23: a handler behind f & g runs iff f and g both pass, behind f | g iff
\* one of them passes, behind ~f iff f does not pass, and behind
\* (a | b) & ~c iff (a or b passes) and c does not; the operator forms build
\* the filters the constructors AndFilter, OrFilter, NotFilter build.
C23_CombinatorLaws ==
  /\ Dispatched =>
       LET f == TheFilter
           P(g) == FilterCheck(g, TheUpdate)
       IN /\ f.type = "and" => (Ran <=> (P(f.a[1]) /\ P(f.a[2])))
          /\ f.type = "or" => (Ran <=> (P(f.a[1]) \/ P(f.a[2])))
          /\ f.type = "not" => (Ran <=> ~P(f.a[1]))
          /\ (f.type = "and" /\ f.a[1].type = "or" /\ f.a[2].type = "not") =>
               (Ran <=> ((P(f.a[1].a[1]) \/ P(f.a[1].a[2])) /\ ~P(f.a[2].a[1])))
  /\ \A f \in CombinedLeaves, g \in CombinedLeaves :
       /\ OpAnd(f, g) = AndFilter(f, g)
       /\ OpOr(f, g) = OrFilter(f, g)
       /\ OpInvert(f) = NotFilter(f)
       /\ OpAnd(OpOr(f, g), OpInvert(f)) = AndFilter(OrFilter(f, g), NotFilter(f))

C23_Witness ==
  /\ Dispatched
  /\ Ran
  /\ TheFilter = OpAnd(OpOr(TextFilter(<<S_hi>>, None), UserFilter(<<5>>)),
                       OpInvert(CallbackDataFilter(<<S_btn>>, None)))
  /\ ~FilterCheck(TextFilter(<<S_hi>>, None), TheUpdate)
  /\ FilterCheck(UserFilter(<<5>>), TheUpdate)
  /\ ~FilterCheck(CallbackDataFilter(<<S_btn>>, None), TheUpdate)

\* the text of the page's record, None when it has no message or no text
RawText ==
  IF updates[1].message = None THEN None ELSE updates[1].message[1].body.text

\* C24: a command registered with or without its "/" gives the same filter;
\* a handler behind a command filter runs iff the message has a text that,
\* trimmed, starts with "/" and whose first token, cut at "@", is one of the
\* registered commands: for "start", the texts "/start", "/start@bot arg"
\* and "  /start " and no other.
C24_CommandFilter ==
  /\ CommandFilter(<<S_start>>) = CommandFilter(<<S_slash_start>>)
  /\ CommandFilter(<<S_help, S_slash_start>>)
       = CommandFilter(<<S_slash_help, S_start>>)
  /\ (Dispatched /\ TheFilter.type = "command" /\ TheFilter.a # <<>>) =>
       /\ \A i \in 1..Len(TheFilter.a) : Head(TheFilter.a[i]) = "/"
       /\ Ran <=>
            /\ RawText # None
            /\ RawText[1] # <<>>
            /\ Head(Strip(RawText[1])) = "/"
            /\ \E i \in 1..Len(TheFilter.a) :
                 TheFilter.a[i] = BeforeAt(FirstToken(Strip(RawText[1])))
  /\ (Dispatched /\ TheFilter = CommandFilter(<<S_start>>)) =>
       (Ran <=> RawText \in {Some(S_slash_start), Some(S_start_at), Some(S_start_pad)})

C24_Witness ==
  /\ Dispatched
  /\ Ran
  /\ TheFilter = CommandFilter(<<S_start>>)
  /\ RawText = Some(S_start_at)

\* the payload of the page's record, None when it has no callback or no payload
RawPayload ==
  IF updates[1].callback = None THEN None ELSE updates[1].callback[1].payload

\* C25: a handler behind a text filter that was given a set, a substring or
\* both runs iff the message has a text that equals a member of the set or
\* contains the substring.
C25_TextEqualsOrContains ==
  (Dispatched /\ TheFilter.type = "text"
     /\ (TheFilter.a # <<>> \/ TheFilter.b # None)) =>
    (Ran <=>
       /\ RawText # None
       /\ RawText[1] # <<>>
       /\ \/ \E i \in 1..Len(TheFilter.a) : TheFilter.a[i] = RawText[1]
          \/ TheFilter.b # None /\ Contains(RawText[1], TheFilter.b[1]))

\* C26: a handler behind a callback payload filter that was given a set, a
\* prefix or both runs iff the callback has a payload that is a member of the
\* set or starts with the prefix.
C26_PayloadMemberOrPrefix ==
  (Dispatched /\ TheFilter.type = "callback_data"
     /\ (TheFilter.a # <<>> \/ TheFilter.b # None)) =>
    (Ran <=>
       /\ RawPayload # None
       /\ RawPayload[1] # <<>>
       /\ \/ \E i \in 1..Len(TheFilter.a) : TheFilter.a[i] = RawPayload[1]
          \/ TheFilter.b # None /\ StartsWith(RawPayload[1], TheFilter.b[1]))

\* the id the claim names: the sender's when the record's message has a
\* sender, else the callback user's when it has a callback, else the
\* update-level user's; the default 0 stands for a user dict without user_id
RawId(user) == IF "user_id" \in DOMAIN user THEN user.user_id ELSE 0
RawHas(key) == updates[1][key] # None /\ updates[1][key][1].shape = "dict"
ClaimedId ==
  IF RawHas("message") /\ updates[1].message[1].sender # None
    THEN Some(RawId(updates[1].message[1].sender[1]))
  ELSE IF RawHas("callback")
    THEN IF updates[1].callback[1].user = None THEN Some(0)
         ELSE Some(RawId(updates[1].callback[1].user[1]))
  ELSE IF RawHas("user")
    THEN Some(RawId(updates[1].user[1]))
  ELSE None

\* C27 as stated: a handler behind a user filter runs iff the id taken in the
\* order sender, callback user, update-level user is in the filter's set, and
\* does not run when none of the three is present.
C27_UserIdInSet ==
  (Dispatched /\ TheFilter.type = "user") =>
    (Ran <=> (ClaimedId # None
               /\ \E i \in 1..Len(TheFilter.a) : TheFilter.a[i] = ClaimedId[1]))

\* C27: a handler behind a user filter runs iff the id taken in the order
\* sender, callback user, update-level user is not 0 and is in the filter's
\* set; it does not run when none of the three is present, nor when the first
\* present one has the id 0, even if a later one has an id of the set.
C27_UserIdNonZeroInSet ==
  (Dispatched /\ TheFilter.type = "user") =>
    (Ran <=> (ClaimedId # None /\ ClaimedId[1] # 0
               /\ \E i \in 1..Len(TheFilter.a) : TheFilter.a[i] = ClaimedId[1]))

C27_Witness ==
  /\ Dispatched
  /\ ~Ran
  /\ TheFilter = UserFilter(<<0, 5>>)
  /\ ClaimedId = Some(0)
  /\ updates[1].user = Some(RawUser(5))

\* the chat_type of the record's recipient, None when the record has no
\* message, the message no recipient, or the recipient no chat_type
RawChatType ==
  IF updates[1].message = None THEN None
  ELSE IF "recipient" \notin DOMAIN updates[1].message[1] THEN None
  ELSE IF "chat_type" \notin DOMAIN updates[1].message[1].recipient THEN None
  ELSE updates[1].message[1].recipient.chat_type

\* C28: a handler behind a leaf filter does not run for a record that lacks
\* the field the filter inspects (text, command: no message or no text; chat
\* type: no message or no chat_type; user id: no sender, callback or user;
\* callback payload: no callback or no payload), and the record is dispatched
\* without an exception; behind a chat type filter it runs iff the
\* recipient's chat_type is in the filter's set.
C28_MissingFieldIsFalse ==
  Dispatched =>
    /\ (TheFilter.type \in {"text", "command"} /\ RawText \in {None, Some(<<>>)})
         => ~Ran
    /\ (TheFilter.type = "callback_data" /\ RawPayload \in {None, Some(<<>>)})
         => ~Ran
    /\ (TheFilter.type = "user" /\ ClaimedId = None) => ~Ran
    /\ (TheFilter.type = "chat_type" /\ RawChatType \in {None, Some("")}) => ~Ran
    /\ TheFilter.type = "chat_type" =>
         (Ran <=> (RawChatType # None
                    /\ \E i \in 1..Len(TheFilter.a) : TheFilter.a[i] = RawChatType[1]))
    /\ TheFilter.type \in {"text", "command", "callback_data", "user", "chat_type"}
         => /\ FilterCheck(TheFilter, TheUpdate) \in BOOLEAN
            /\ ~Ran => hist.raisedAt = 0

C28_Witness ==
  /\ Dispatched
  /\ ~Ran
  /\ TheFilter = ChatTypeFilter(<<"dialog">>)
  /\ updates[1].message # None
  /\ "recipient" \in DOMAIN updates[1].message[1]
  /\ RawChatType = None

\* C30: the stored history of every session has at most max_history messages.
C30_HistoryBounded ==
  \A sid \in DOMAIN sessions : Len(sessions[sid]) <= max_history

\* C31: for every update at most one callback returns normally, and once one
\* has, process_update is over: no handler is checked or invoked for that
\* update any more, and the callbacks invoked before it all raised.
C31_AtMostOneCompletes ==
  /\ [](/\ hist.returned <= 1
        /\ hist.returned = 1 =>
             /\ pc # "dispatch"
             /\ invoked # <<>>
             /\ hist.payload # None)
  /\ [][hist.returned = 1 =>
          (invoked' = invoked \/ (invoked' = <<>> /\ hist'.returned = 0))]_vars

C31_Witness ==
  /\ hist.returned = 1
  /\ pc = "page"
  /\ invoked = <<1, 2>>
  /\ hist.raisedAt = 1
  /\ idx = 2

C33_IdentityFailureReturns ==
  /\ [](hist.identity = "failed" =>
          /\ pc = "returned"
          /\ ~running
          /\ hist.startup = "no" /\ hist.shutdown = "no" /\ hist.shutdownRuns = 0
          /\ hist.started = <<>> /\ invoked = <<>> /\ hist.payload = None
          /\ updates = <<>>)
  /\ [][hist'.identity = "failed" =>
          /\ pc \in {"init", "returned"}
          /\ UNCHANGED <<running, marker, fetchMarker, cycle, new_marker>>]_vars

C33_Witness ==
  /\ hist.identity = "failed"
  /\ startup_handler /\ shutdown_handler
  /\ marker = Some(1) /\ fetchMarker = Some(0) /\ cycle = "ok"
  /\ Len(handlers) = 2


\* C34: once an exception has left a poll cycle (get_updates raising, a
\* BaseException out of a handler) the call only goes through its finally
\* block and the shutdown hook: no fetch follows, running is false from the
\* finally block on, the shutdown hook has run exactly once when the call is
\* over, and the cursor is the one the broken cycle started with.
C34_EscapeEndsLoop ==
  /\ [](hist.escaped =>
          /\ pc \in {"finally", "shutdown", "returned"}
          /\ cycle = "crashed"
          /\ marker = fetchMarker
          /\ pc \in {"shutdown", "returned"} => ~running
          /\ hist.shutdownRuns =
               (IF pc = "returned" /\ shutdown_handler THEN 1 ELSE 0))
  /\ [][hist'.escaped =>
          /\ marker' = marker
          /\ hist.escaped => UNCHANGED <<fetchMarker, cycle, updates, invoked>>]_vars

C34_Witness ==
  /\ hist.escaped
  /\ pc = "returned"
  /\ shutdown_handler /\ hist.shutdownRuns = 1
  /\ marker = Some(1)
  /\ new_marker = Some(0)
  /\ idx = 2 /\ Len(updates) = 2
  /\ invoked = <<1>>


\* C35: whenever a fetch is due, an empty page with any next-token is taken
\* as a page, not as a failed fetch; the cycle of an empty page with a
\* next-token ends, with no record dispatched, by setting the cursor to that
\* token and is recorded as a good cycle.
C35_EmptyPageAdvances ==
  /\ [](pc = "fetch" =>
          \A t \in 0..MaxMarker :
            ENABLED (/\ GetUpdates
                     /\ pc' = "page" /\ cycle' = "open"
                     /\ updates' = <<>> /\ new_marker' = Some(t)
                     /\ marker' = marker
                     /\ hist'.failStreak = (IF cycle = "fail" THEN hist.failStreak ELSE 0)))
  /\ [][(pc = "page" /\ updates = <<>> /\ new_marker # None /\ pc' # pc) =>
          /\ pc' = "loop"
          /\ marker' = new_marker
          /\ cycle' = "ok"
          /\ hist'.started = <<>> /\ invoked' = <<>>]_vars
  /\ [](cycle = "open" => pc \in {"page", "dispatch"})
  /\ []((pc = "loop" /\ cycle = "ok" /\ hist.started = <<>> /\ new_marker # None) =>
          marker = new_marker)

C35_Witness ==
  /\ pc = "loop" /\ cycle = "ok"
  /\ hist.started = <<>>
  /\ fetchMarker = Some(0)
  /\ new_marker = Some(1)
  /\ marker = Some(1)
  /\ running


\* The steps start_polling takes by itself once it has the identity: each
\* await of a hook, of get_updates and of a handler returns, and the event loop
\* keeps running the coroutine.
ProgramStep ==
  \/ StartupHook
  \/ SetRunning
  \/ LoopCheck
  \/ GetUpdates
  \/ Classify
  \/ InvokeHandler
  \/ NoMatch
  \/ EndOfPage
  \/ Finally
  \/ ShutdownHook

SpecTerm == InitLive /\ [][NextLive]_vars /\ WF_vars(ProgramStep)

\* C36: every callback and transport call returning, a run in which stop()
\* was called, during the startup hook or during a poll cycle, leads to
\* start_polling having returned; and a poll cycle that has its page leads
\* back to the loop head.
C36_StopTerminates ==
  /\ (hist.stopInFlight # "no") ~> (pc = "returned")
  /\ (pc \in {"page", "dispatch"}) ~> (pc = "loop")


\* process_update called directly on a dispatcher whose handlers were made by
\* the three decorators, with filters that pass on updates of other kinds
\* than the decorator's (no filter at all, a negated filter): any list of
\* them, any classifiable record.
MessageRegistrations ==
  { MessageDeco("echo", <<>>, None, None),
    MessageDeco("hello", <<>>, None, Some(S_hi)),
    MessageDeco("not_hi", <<NotFilter(TextFilter(<<S_hi>>, None))>>, None, None) }

CallbackRegistrations ==
  { CallbackQueryDeco("any_button", <<>>, None),
    CallbackQueryDeco("button", <<>>, Some(S_btn)),
    CallbackQueryDeco("not_btn", <<NotFilter(CallbackDataFilter(<<S_btn>>, None))>>, None) }

UpdateRegistrations ==
  { UpdateDeco("any_update", <<>>),
    UpdateDeco("on_start", <<"bot_started">>) }

KindRegistrations ==
  MessageRegistrations \cup CallbackRegistrations \cup UpdateRegistrations

InitKinds ==
  /\ handlers \in UNION { [1..n -> KindRegistrations] : n \in 0..MaxHandlers }
  /\ marker = None
  /\ running = FALSE
  /\ startup_handler = FALSE
  /\ shutdown_handler = FALSE
  /\ pc = "dispatch"
  /\ \E raw \in DispatchRecords : updates = <<raw>>
  /\ new_marker = None
  /\ idx = 1
  /\ hidx = 1
  /\ invoked = <<>>
  /\ fetchMarker = None
  /\ cycle = "none"
  /\ hist = Hist0
  /\ ClientInit(DefaultMaxHistory)
  /\ RetryIdle

SpecKinds == InitKinds /\ [][NextDispatch]_vars

\* update() registrations made without kinds
KindAgnostic == { h \in UpdateRegistrations : h.update_types = <<>> }

\* C37: a callback registered with message() is invoked only for a
\* message_created or message_edited update and one registered with
\* callback_query() only for a message_callback update, also when all its
\* filters pass on the update; a handler registered with update() without
\* kinds passes the check on every update, unrecognised kinds included, is
\* the match when the scan reaches it, and once the dispatch is over it or a
\* handler before it has been invoked.
C37_DecoratorKindSets ==
  /\ \A k \in 1..Len(invoked) :
       LET h == handlers[invoked[k]] IN
         /\ h \in MessageRegistrations =>
              LastUpdate.update_type.value \in {"message_created", "message_edited"}
         /\ h \in CallbackRegistrations =>
              LastUpdate.update_type.value = "message_callback"
  /\ \A i \in 1..Len(handlers) :
       handlers[i] \in KindAgnostic =>
         /\ HandlerCheck(handlers[i], LastUpdate)
         /\ (pc = "dispatch" /\ hidx = i) => NextMatch(handlers, update, hidx) = i
         /\ pc = "page" => \E k \in 1..Len(invoked) : invoked[k] <= i

C37_Witness ==
  /\ pc = "page"
  /\ Len(handlers) = 2
  /\ LastUpdate.update_type.value = "poll_closed"
  /\ handlers[1] = MessageDeco("hello", <<>>, None, Some(S_hi))
  /\ AllFiltersPass(handlers[1], LastUpdate)
  /\ handlers[2] \in KindAgnostic
  /\ invoked = <<2>>


\* C38: a call of add_to_history that makes the session's list longer than
\* max_history leaves, when the list's first message has role system, that
\* message followed by the max_history - 1 most recent ones in their order,
\* else the max_history most recent ones; a call that does not overflow
\* leaves the list with the message appended.
C38_TruncationKeeps ==
  [][\A sid \in SessionIds :
       (sent' = sent + 1 /\ sid \in DOMAIN sessions'
          /\ sessions'[sid] # SessionsWith(sid)[sid]) =>
         \E role \in Roles :
           LET full == Append(SessionsWith(sid)[sid], [role |-> role, content |-> sent])
               n == Len(full)
           IN sessions'[sid] =
                (IF n <= max_history THEN full
                 ELSE IF full[1].role = "system"
                   THEN <<full[1]>> \o SubSeq(full, n - (max_history - 1) + 1, n)
                   ELSE SubSeq(full, n - max_history + 1, n))]_vars


\* ------------------------------------------------------- retry_with_backoff
MaxRetries == 3

\* backoff_factor: float = 2.0
BackoffFactor == 2

\* initial_delay and max_delay, in half seconds (the defaults are 1.0 and 60.0)
RetryDelays == {2, 6}
RetryMaxDelays == {4, 120}

\* what a call of func does: it returns, or raises ResponseError with status
\* 429, ResponseError with another status, another Exception, or a
\* BaseException that is no Exception (CancelledError, KeyboardInterrupt)
FuncOutcomes == {"ok", "rate_limited", "response_error", "error", "interrupt"}

\* the exception raised by the n-th call of func
Exc(kind, n) == [kind |-> kind, call |-> n]

\* return await func()
FuncReturned ==
  /\ rpc' = "returned"
  /\ finished' = Some([how |-> "return", call |-> Len(trace) + 1])
  /\ UNCHANGED <<last_exception, delay, wait_time, attempt>>

\* `raise` in an except clause: the exception being handled leaves the call
Reraised(e) ==
  /\ rpc' = "raised"
  /\ finished' = Some([how |-> "raise", call |-> e.call])
  /\ UNCHANGED <<delay, wait_time, attempt>>

\* await asyncio.sleep(wait_time); delay *= backoff_factor; next iteration
Backoff(w) ==
  /\ wait_time' = w
  /\ delay' = delay * BackoffFactor
  /\ attempt' = attempt + 1
  /\ rpc' = "try"
  /\ UNCHANGED finished

\* except ResponseError, e.status_code == 429
RateLimited(e) ==
  /\ last_exception' = Some(e)
  /\ IF attempt < max_retries THEN Backoff(Min(delay, max_delay)) ELSE Reraised(e)

\* variant of ResponseFailed: every ResponseError is retried like a 429
ResponseFailedRetried(e) ==
  /\ last_exception' = Some(e)
  /\ IF attempt < max_retries THEN Backoff(Min(delay, max_delay)) ELSE Reraised(e)

\* except ResponseError, another status: raise
ResponseFailed(e) ==
  /\ last_exception' = Some(e)
  /\ Reraised(e)

\* except Exception: min(delay / 2, max_delay / 2)
OtherFailed(e) ==
  /\ last_exception' = Some(e)
  /\ IF attempt < max_retries
       THEN Backoff(Min(delay, max_delay) \div 2)
       ELSE Reraised(e)

\* a BaseException passes both except clauses
Interrupted(e) ==
  /\ UNCHANGED last_exception
  /\ Reraised(e)

\* one iteration of `for attempt in range(max_retries + 1)`
Attempt ==
  /\ rpc = "try"
  /\ attempt <= max_retries
  /\ \E kind \in FuncOutcomes :
       LET e == Exc(kind, Len(trace) + 1) IN
         /\ trace' = Append(trace, kind)
         /\ CASE kind = "ok"             -> FuncReturned
              [] kind = "rate_limited"   -> RateLimited(e)
              [] kind = "response_error" -> ResponseFailed(e)
              [] kind = "error"          -> OtherFailed(e)
              [] kind = "interrupt"      -> Interrupted(e)
  /\ UNCHANGED <<max_retries, max_delay, sessions, max_history, sent>>
  /\ UNCHANGED <<dvars, pc, lvars, gvars>>

\* the loop ends without a return or a raise:
\* `if last_exception: raise last_exception`, else None is returned
LoopExhausted ==
  /\ rpc = "try"
  /\ attempt > max_retries
  /\ IF last_exception # None
       THEN /\ rpc' = "raised"
            /\ finished' = Some([how |-> "raise", call |-> last_exception[1].call])
       ELSE /\ rpc' = "returned"
            /\ finished' = Some([how |-> "return", call |-> 0])
  /\ UNCHANGED <<max_retries, max_delay, delay, last_exception, attempt,
                 wait_time, trace, sessions, max_history, sent>>
  /\ UNCHANGED <<dvars, pc, lvars, gvars>>

\* retry_with_backoff called with any max_retries from -1 to MaxRetries, an
\* initial delay and a maximal delay
InitRetry ==
  /\ handlers = <<>>
  /\ marker = None
  /\ running = FALSE
  /\ startup_handler = FALSE
  /\ shutdown_handler = FALSE
  /\ pc = "init"
  /\ updates = <<>>
  /\ new_marker = None
  /\ idx = 1
  /\ hidx = 1
  /\ invoked = <<>>
  /\ fetchMarker = None
  /\ cycle = "none"
  /\ hist = Hist0
  /\ sessions = [sid \in {} |-> <<>>]
  /\ max_history = DefaultMaxHistory
  /\ sent = 0
  /\ rpc = "try"
  /\ max_retries \in -1..MaxRetries
  /\ max_delay \in RetryMaxDelays
  /\ delay \in RetryDelays
  /\ last_exception = None
  /\ attempt = 0
  /\ wait_time = 0
  /\ finished = None
  /\ trace = <<>>

NextRetry == Attempt \/ LoopExhausted

\* every await of the function ends: func returns or raises, the sleeps end
SpecRetry == InitRetry /\ [][NextRetry]_vars /\ WF_vars(NextRetry)

Retriable == {"rate_limited", "error"}

\* C39: func is called at most max_retries + 1 times and the call ends;
\* every call of func but the last one raised a 429 or another Exception;
\* a call that returns ends the function with its result; a ResponseError
\* with another status ends it at once with that exception; a 429 or another
\* Exception ends it only at call max_retries + 1, with that exception.
C39_RetryBounded ==
  /\ [](LET n == Len(trace) IN
          /\ n <= max_retries + 1
          /\ \A k \in 1..(n - 1) : trace[k] \in Retriable
          /\ rpc = "try" => (n = attempt /\ \A k \in 1..n : trace[k] \in Retriable)
          /\ (n > 0 /\ trace[n] = "ok") =>
               (rpc = "returned" /\ finished = Some([how |-> "return", call |-> n]))
          /\ (n > 0 /\ trace[n] = "response_error") =>
               /\ rpc = "raised"
               /\ finished = Some([how |-> "raise", call |-> n])
               /\ last_exception = Some(Exc("response_error", n))
          /\ (n > 0 /\ trace[n] \in Retriable /\ rpc # "try") =>
               /\ n = max_retries + 1
               /\ rpc = "raised"
               /\ finished = Some([how |-> "raise", call |-> n])
               /\ last_exception = Some(Exc(trace[n], n))
          /\ (rpc = "returned" /\ n > 0) => trace[n] = "ok"
          /\ rpc = "raised" => (n > 0 /\ trace[n] # "ok"))
  /\ <>(rpc \in {"returned", "raised"})

C39_Witness ==
  /\ rpc = "raised"
  /\ max_retries = 2
  /\ trace = <<"rate_limited", "error", "rate_limited">>
  /\ last_exception = Some(Exc("rate_limited", 3))
  /\ wait_time = 2

====
